---- MODULE Spec2Model ----
(***************************************************************************)
(* E-Learning platform backend: the Express routes, the auth middleware,   *)
(* the controllers and the Mongoose models, as a state machine over the    *)
(* five collections (users, profiles, courses, categories, reviews).       *)
(*                                                                         *)
(* One action per route: the middleware chain of the route (protect,       *)
(* authorize) followed by the controller, run to completion, ending in the *)
(* response (resp).  The action Reply hands the response to the client and *)
(* frees the connection for the next request.  createReview is also given  *)
(* one action per await, for the interleaving of two requests.             *)
(*                                                                         *)
(* Abstractions: ObjectIds are the integers 1, 2, ... handed out by a      *)
(* counter per collection and never reused; array fields whose order and   *)
(* multiplicity no handler reads (categories, Category.courses,            *)
(* User.enrolledCourses) are sets, Course.enrolledStudents is a sequence;  *)
(* of the validated fields of a Course the model keeps title and price     *)
(* (description, image, level and duration are validated and copied the    *)
(* same way); strings are drawn from small sets.                           *)
(***************************************************************************)
EXTENDS Integers, Sequences, FiniteSets, TLC

\* ------------------------------------------------------------------ bounds
\* ObjectIds ever handed out per collection (the seed's documents included).
MaxUsers == 5
MaxCourses == 2
MaxCategories == 3
MaxReviews == 3
\* Concurrent createReview requests in flight.
MaxInflight == 2
\* Reviews of one course in the states the rating is computed in.
MaxRatings == 20

\* ------------------------------------------------------- program constants
\* The documents of the seed script, in the order it creates them.
AdminId == 1
InstructorId == 2
Instructor2Id == 3
StudentId == 4
\* password: minlength 6
MinPasswordLen == 6
\* rating: min 1, max 5
MinRating == 1
MaxRating == 5
\* HTTP status codes set by the handlers and the error middleware
Ok == 200
Created == 201
BadRequest == 400
Unauthorized == 401
Forbidden == 403
NotFound == 404
ServerError == 500

\* No document: null (findById found nothing).
Null == 0

Roles == {"student", "instructor", "admin"}

VARIABLES
    users,       \* _id -> [email, password, role, profile, enrolledCourses]
    profiles,    \* _id -> [user, firstName, lastName, bio]
    courses,     \* _id -> [title, price, instructor, categories, enrolledStudents, isPublished]
    categories,  \* _id -> [name, description, courses]
    reviews,     \* _id -> [rating, comment, user, course]
    nextId,      \* the next ObjectId of each collection
    resp,        \* the request just handled and its response, or Idle
    inflight     \* createReview requests between two awaits: slot -> record

store == <<users, profiles, courses, categories, reviews, nextId>>
vars == <<users, profiles, courses, categories, reviews, nextId, resp, inflight>>

\* ----------------------------------------------------------------- helpers
\* bcrypt.hash / bcrypt.compare: a hash is not the password (nor is the hash
\* of a hash the hash), and compare hashes the entered password again.
Hash(pw) == "$2a$" \o pw
MatchPassword(u, entered) == u.password = Hash(entered)

\* A hook that hashes the password on every save.
RehashAlways(password, modified) == Hash(password)

\* userSchema.pre('save'): the password the save writes for a document whose
\* modified paths are given.  With the password modified (User.create) the
\* hook hashes it and the save waits for the hook.  With the password not
\* modified the hook calls next() and goes on: the save starts at once and
\* writes the modified paths only, the stored hash is not among them; the
\* hash of the hash that the hook assigns afterwards (two timer turns later,
\* genSalt and hash) lands on the document in memory, which no handler
\* saves again.
PreSavePassword(password, modified) ==
    IF "password" \in modified THEN Hash(password) ELSE password

\* String setters of the schemas.  lowercase + trim of User.email:
Lower(e) ==
    CASE e = "STUDENT@X.COM" -> "student@x.com"
      [] e = " new@x.com " -> "new@x.com"
      [] OTHER -> e
\* match: /\S+@\S+\.\S+/
EmailFormatOk(e) == e \notin {"", "bad"}
\* trim of Profile.firstName / lastName, Course.title, Category.name
Trim(s) == IF s = " " THEN "" ELSE s

\* A request body is a record of the fields the client sent.
Has(b, f) == f \in DOMAIN b
\* if (field): sent and not the empty string
Truthy(b, f) == Has(b, f) /\ b[f] # ""

\* Model.find helpers
UserByEmail(e) == {u \in DOMAIN users : users[u].email = e}
ProfileByUser(u) == {p \in DOMAIN profiles : profiles[p].user = u}
ReviewBy(u, c) == {r \in DOMAIN reviews : reviews[r].user = u /\ reviews[r].course = c}
InSeq(x, s) == \E i \in 1..Len(s) : s[i] = x
Without(s, x) == SelectSeq(s, LAMBDA y : y # x)
Remove(f, k) == [x \in DOMAIN f \ {k} |-> f[x]]

\* ------------------------------------------------------------ the response
NoToken == [kind |-> "none", id |-> Null]
NoBody == [empty |-> TRUE]
Resp(op, tok, id, body, user, status) ==
    [op |-> op, tok |-> tok, id |-> id, body |-> body, user |-> user, status |-> status]
Idle == Resp("idle", NoToken, Null, NoBody, Null, Null)

\* errorHandler: the status the handler set (500 when it set none), unless
\* the error is a CastError (404), a ValidationError or a duplicate key (400).
ErrorHandler(resStatus, err) ==
    LET statusCode == IF resStatus = Ok THEN ServerError ELSE resStatus
    IN CASE err = "CastError" -> NotFound
         [] err = "ValidationError" -> BadRequest
         [] err = "E11000" -> BadRequest
         [] OTHER -> statusCode

\* ------------------------------------------------------------------ tokens
\* generateToken: the payload is the account id; jwt.verify accepts exactly
\* the tokens signed with the secret and not expired.
GenerateToken(id) == [kind |-> "valid", id |-> id]
\* jwt.decode: the payload of a token, its signature and expiry unchecked.
JwtDecode(tok) == tok.id
JwtVerify(tok) == IF tok.kind = "valid" THEN tok.id ELSE Null
InvalidTokens ==
    {NoToken, [kind |-> "malformed", id |-> Null],
     [kind |-> "expired", id |-> StudentId], [kind |-> "badsig", id |-> StudentId]}

\* protect: 401 without a Bearer header or when jwt.verify throws; otherwise
\* req.user is what User.findById returns (null for a deleted account) and
\* next() is called.
Protect(tok) ==
    IF tok.kind = "none" THEN [status |-> ErrorHandler(Unauthorized, "Error"), user |-> Null]
    ELSE IF JwtVerify(tok) = Null THEN [status |-> ErrorHandler(Unauthorized, "Error"), user |-> Null]
    ELSE [status |-> Ok, user |-> IF JwtVerify(tok) \in DOMAIN users THEN JwtVerify(tok) ELSE Null]

\* A route whose authorize lets every role through.
AuthorizeAnyone(roles, user) == Ok

\* authorize(...roles): reads req.user.role (a TypeError on a null req.user,
\* which the error middleware answers 500), 403 when the role is not listed.
Authorize(roles, user) ==
    IF user = Null THEN ErrorHandler(Ok, "TypeError")
    ELSE IF users[user].role \notin roles THEN ErrorHandler(Forbidden, "Error")
    ELSE Ok

\* The chain protect, authorize(roles) of a route; roles = {} for a route
\* with protect alone.
Chain(tok, roles) ==
    LET p == Protect(tok)
    IN IF p.status # Ok THEN p
       ELSE IF roles = {} THEN p
       ELSE [status |-> Authorize(roles, p.user), user |-> p.user]

\* A controller that lets every authenticated principal through.
NeverForbidden(owner, user) == FALSE

\* The ownership test of the controllers:
\* owner.toString() !== req.user._id.toString() && req.user.role !== 'admin'
NotOwnerNorAdmin(owner, user) == owner # user /\ users[user].role # "admin"

\* -------------------------------------------------------------------- seed
\* seedData, scaled down: two categories, the four accounts with their
\* profiles, one published course of the first instructor in the first
\* category, the student enrolled in it and its author of one review.
SeedUser(email, pw, role, profile, enrolled) ==
    [email |-> email, password |-> Hash(pw), role |-> role, profile |-> profile,
     enrolledCourses |-> enrolled]
SeedProfile(u, first, last) == [user |-> u, firstName |-> first, lastName |-> last, bio |-> "bio"]

Init ==
    /\ users = (AdminId :> SeedUser("admin@x.com", "admin123", "admin", 1, {}))
            @@ (InstructorId :> SeedUser("prof@x.com", "instructor123", "instructor", 2, {}))
            @@ (Instructor2Id :> SeedUser("sarah@x.com", "instructor123", "instructor", 3, {}))
            @@ (StudentId :> SeedUser("student@x.com", "student123", "student", 4, {1}))
    /\ profiles = (1 :> SeedProfile(AdminId, "Admin", "System"))
            @@ (2 :> SeedProfile(InstructorId, "Mohamed", "Ben Ali"))
            @@ (3 :> SeedProfile(Instructor2Id, "Sarah", "Mansouri"))
            @@ (4 :> SeedProfile(StudentId, "Ahmed", "Trabelsi"))
    /\ categories = (1 :> [name |-> "web", description |-> "d", courses |-> {1}])
            @@ (2 :> [name |-> "data", description |-> "d", courses |-> {}])
    /\ courses = (1 :> [title |-> "React", price |-> 50, instructor |-> InstructorId,
                        categories |-> {1}, enrolledStudents |-> <<StudentId>>,
                        isPublished |-> TRUE])
    /\ reviews = (1 :> [rating |-> 5, comment |-> "c", user |-> StudentId, course |-> 1])
    /\ nextId = [user |-> 5, profile |-> 5, course |-> 2, category |-> 3, review |-> 2]
    /\ resp = Idle
    /\ inflight = [s \in 1..MaxInflight |-> [pc |-> "idle"]]

\* The response is sent (res.json) and the connection takes the next request.
Reply ==
    /\ resp # Idle
    /\ resp' = Idle
    /\ UNCHANGED <<store, inflight>>

\* A request answered without touching the store.
Answer(op, tok, id, body, user, status) ==
    /\ resp' = Resp(op, tok, id, body, user, status)
    /\ UNCHANGED <<store, inflight>>

\* ==================================================================== auth
\* POST /api/auth/register (public)
Register(body) ==
    LET email == Lower(body.email)
        role == IF Truthy(body, "role") THEN body.role ELSE "student"
        uid == nextId.user
        pid == nextId.profile
        userValid == /\ EmailFormatOk(email)
                     /\ Len(body.password) >= MinPasswordLen
                     /\ role \in Roles
        namesGiven == Truthy(body, "firstName") /\ Truthy(body, "lastName")
        profileValid == Trim(body.firstName) # "" /\ Trim(body.lastName) # ""
        user == [email |-> email,
                 password |-> PreSavePassword(body.password, {"email", "password", "role"}),
                 role |-> role,
                 profile |-> Null, enrolledCourses |-> {}]
        A(id, status) == resp' = Resp("register", NoToken, id, body, Null, status)
    IN /\ resp = Idle
       /\ IF UserByEmail(email) # {}
          THEN A(Null, ErrorHandler(BadRequest, "Error")) /\ UNCHANGED <<store, inflight>>
          ELSE IF ~userValid
          THEN A(Null, ErrorHandler(Ok, "ValidationError")) /\ UNCHANGED <<store, inflight>>
          ELSE /\ uid <= MaxUsers
               \* User.create has run: the account exists from here on
               /\ IF ~namesGiven \/ ~profileValid
                  THEN /\ users' = users @@ (uid :> user)
                       /\ nextId' = [nextId EXCEPT !.user = uid + 1]
                       /\ A(uid, IF ~namesGiven THEN ErrorHandler(BadRequest, "Error")
                                 ELSE ErrorHandler(Ok, "ValidationError"))
                       /\ UNCHANGED <<profiles, courses, categories, reviews, inflight>>
                  ELSE /\ users' = users @@ (uid :> [user EXCEPT !.profile = pid])
                       /\ profiles' = profiles @@
                             (pid :> [user |-> uid, firstName |-> Trim(body.firstName),
                                      lastName |-> Trim(body.lastName), bio |-> ""])
                       /\ nextId' = [nextId EXCEPT !.user = uid + 1, !.profile = pid + 1]
                       /\ A(uid, Created)
                       /\ UNCHANGED <<courses, categories, reviews, inflight>>

\* login: User.findOne({ email }), then user.matchPassword(password) when an
\* account was found.  bcrypt.compare rejects an entered password that is
\* not a string ("Illegal arguments"), an error with no status set.  The
\* answer on the store us: the status, the message and the account.
LoginResponse(us, body) ==
    LET found == {u \in DOMAIN us : us[u].email = Lower(body.email)}
        denied == [status |-> ErrorHandler(Unauthorized, "Error"),
                   message |-> "Email ou mot de passe incorrect", user |-> Null]
    IN IF found = {} THEN denied
       ELSE LET u == CHOOSE x \in found : TRUE
            IN IF ~Has(body, "password")
               THEN [status |-> ErrorHandler(Ok, "Error"),
                     message |-> "Illegal arguments: undefined, string", user |-> Null]
               ELSE IF MatchPassword(us[u], body.password)
               THEN [status |-> Ok, message |-> "", user |-> u]
               ELSE denied

\* POST /api/auth/login (public)
Login(body) ==
    LET r == LoginResponse(users, body)
    IN /\ resp = Idle
       /\ Answer("login", IF r.status = Ok THEN GenerateToken(r.user) ELSE NoToken,
                 r.user, body, Null, r.status)

\* =================================================================== users
\* PUT /api/users/:id (protect)
UpdateUser(tok, id, body) ==
    LET ch == Chain(tok, {})
        A(status) == resp' = Resp("updateUser", tok, id, body, ch.user, status)
        u1 == IF Truthy(body, "email") THEN [users[id] EXCEPT !.email = Lower(body.email)]
              ELSE users[id]
        u2 == IF Truthy(body, "role") /\ users[ch.user].role = "admin"
              THEN [u1 EXCEPT !.role = body.role] ELSE u1
        \* user.save(): the paths assigned above, through the pre-save hook
        modified == {f \in {"email", "role"} : u2[f] # users[id][f]}
        u3 == [u2 EXCEPT !.password = PreSavePassword(@, modified)]
    IN /\ resp = Idle
       /\ IF ch.status # Ok THEN A(ch.status) /\ UNCHANGED <<store, inflight>>
          ELSE IF id \notin DOMAIN users
          THEN A(ErrorHandler(NotFound, "Error")) /\ UNCHANGED <<store, inflight>>
          ELSE IF ch.user = Null
          THEN A(ErrorHandler(Ok, "TypeError")) /\ UNCHANGED <<store, inflight>>
          ELSE IF NotOwnerNorAdmin(id, ch.user)
          THEN A(ErrorHandler(Forbidden, "Error")) /\ UNCHANGED <<store, inflight>>
          ELSE IF ~(EmailFormatOk(u2.email) /\ u2.role \in Roles)
          THEN A(ErrorHandler(Ok, "ValidationError")) /\ UNCHANGED <<store, inflight>>
          ELSE IF UserByEmail(u2.email) \ {id} # {}
          THEN A(ErrorHandler(Ok, "E11000")) /\ UNCHANGED <<store, inflight>>
          ELSE /\ users' = [users EXCEPT ![id] = u3]
               /\ A(Ok)
               /\ UNCHANGED <<profiles, courses, categories, reviews, nextId, inflight>>

\* DELETE /api/users/:id (protect, authorize('admin'))
DeleteUser(tok, id) ==
    LET ch == Chain(tok, {"admin"})
        A(status) == resp' = Resp("deleteUser", tok, id, NoBody, ch.user, status)
    IN /\ resp = Idle
       /\ IF ch.status # Ok THEN A(ch.status) /\ UNCHANGED <<store, inflight>>
          ELSE IF id \notin DOMAIN users
          THEN A(ErrorHandler(NotFound, "Error")) /\ UNCHANGED <<store, inflight>>
          ELSE /\ users' = Remove(users, id)
               /\ A(Ok)
               /\ UNCHANGED <<profiles, courses, categories, reviews, nextId, inflight>>

\* GET /api/users (protect, authorize('admin'))
GetAllUsers(tok) ==
    LET ch == Chain(tok, {"admin"})
    IN /\ resp = Idle
       /\ Answer("getAllUsers", tok, Null, NoBody, ch.user, ch.status)

\* GET /api/users/:id (protect)
GetUserById(tok, id) ==
    LET ch == Chain(tok, {})
    IN /\ resp = Idle
       /\ Answer("getUserById", tok, id, NoBody, ch.user,
                 IF ch.status # Ok THEN ch.status
                 ELSE IF id \in DOMAIN users THEN Ok
                 ELSE ErrorHandler(NotFound, "Error"))

\* GET /api/auth/me (protect): reads req.user._id
GetMe(tok) ==
    LET ch == Chain(tok, {})
    IN /\ resp = Idle
       /\ Answer("getMe", tok, Null, NoBody, ch.user,
                 IF ch.status # Ok THEN ch.status
                 ELSE IF ch.user = Null THEN ErrorHandler(Ok, "TypeError")
                 ELSE Ok)

\* POST /api/auth/logout (protect): reads nothing
Logout(tok) ==
    LET ch == Chain(tok, {})
    IN /\ resp = Idle
       /\ Answer("logout", tok, Null, NoBody, ch.user, ch.status)

\* ================================================================= courses
\* Course validation on save: title required (after trim), price required
\* and >= 0.
CourseValid(c) == Trim(c.title) # "" /\ c.price >= 0

\* An update that leaves the old categories' lists alone.
KeepCourse(cats, id) == cats

\* Category.updateMany({courses: id}, {$pull: {courses: id}})
PullCourse(cats, id) == [k \in DOMAIN cats |-> [cats[k] EXCEPT !.courses = @ \ {id}]]
\* Category.updateMany({_id: {$in: list}}, {$addToSet: {courses: id}})
AddCourse(cats, list, id) ==
    [k \in DOMAIN cats |-> IF k \in list THEN [cats[k] EXCEPT !.courses = @ \cup {id}] ELSE cats[k]]
\* A deletion that leaves the accounts' lists alone.
KeepEnrolled(us, id) == us

\* User.updateMany({enrolledCourses: id}, {$pull: {enrolledCourses: id}})
PullEnrolled(us, id) == [u \in DOMAIN us |-> [us[u] EXCEPT !.enrolledCourses = @ \ {id}]]

\* A creation that takes the instructor from the request body when given.
ClientInstructor(body, user) == IF Has(body, "instructor") THEN body.instructor ELSE user

\* instructor: req.user._id (req.body.instructor is not read)
CourseInstructor(body, user) == user

\* POST /api/courses (protect, authorize('instructor', 'admin'))
CreateCourse(tok, body) ==
    LET ch == Chain(tok, {"instructor", "admin"})
        id == nextId.course
        A(i, status) == resp' = Resp("createCourse", tok, i, body, ch.user, status)
        list == IF Has(body, "categories") THEN body.categories ELSE {}
        required == Has(body, "title") /\ Has(body, "price")
        course == [title |-> body.title,
                   price |-> body.price,
                   instructor |-> CourseInstructor(body, ch.user),
                   categories |-> list,
                   enrolledStudents |-> <<>>,
                   isPublished |-> IF Has(body, "isPublished") THEN body.isPublished ELSE FALSE]
    IN /\ resp = Idle
       /\ IF ch.status # Ok THEN A(Null, ch.status) /\ UNCHANGED <<store, inflight>>
          ELSE IF ~required \/ ~CourseValid(course)
          THEN A(Null, ErrorHandler(Ok, "ValidationError")) /\ UNCHANGED <<store, inflight>>
          ELSE /\ id <= MaxCourses
               /\ courses' = courses @@ (id :> [course EXCEPT !.title = Trim(@)])
               /\ categories' = IF list # {} THEN AddCourse(categories, list, id) ELSE categories
               /\ nextId' = [nextId EXCEPT !.course = id + 1]
               /\ A(id, Created)
               /\ UNCHANGED <<users, profiles, reviews, inflight>>

\* A failed save that undoes the writes made to the categories.
RolledBack(before, after) == before

\* await course.save() rejects after the two updateMany were awaited: they
\* are separate writes outside any transaction and the handler has no catch,
\* so the categories stay as the updateMany left them.
AfterFailedSave(before, after) == after

\* An update that synchronises the categories whether sent or not.
AlwaysSetsCategories(body) == TRUE

\* if (categories): the body carries a categories array
SetsCategories(body) == Has(body, "categories")

\* PUT /api/courses/:id (protect, authorize('instructor', 'admin'))
UpdateCourse(tok, id, body) ==
    LET ch == Chain(tok, {"instructor", "admin"})
        A(status) == resp' = Resp("updateCourse", tok, id, body, ch.user, status)
        c1 == IF Truthy(body, "title") THEN [courses[id] EXCEPT !.title = Trim(body.title)]
              ELSE courses[id]
        c2 == IF Has(body, "price") THEN [c1 EXCEPT !.price = body.price] ELSE c1
        c3 == IF Has(body, "isPublished") THEN [c2 EXCEPT !.isPublished = body.isPublished] ELSE c2
        list == IF Has(body, "categories") THEN body.categories ELSE {}
        c4 == IF SetsCategories(body) THEN [c3 EXCEPT !.categories = list] ELSE c3
        \* the two updateMany run before the save
        cats == IF SetsCategories(body)
                THEN AddCourse(PullCourse(categories, id), list, id)
                ELSE categories
    IN /\ resp = Idle
       /\ IF ch.status # Ok THEN A(ch.status) /\ UNCHANGED <<store, inflight>>
          ELSE IF id \notin DOMAIN courses
          THEN A(ErrorHandler(NotFound, "Error")) /\ UNCHANGED <<store, inflight>>
          ELSE IF NotOwnerNorAdmin(courses[id].instructor, ch.user)
          THEN A(ErrorHandler(Forbidden, "Error")) /\ UNCHANGED <<store, inflight>>
          ELSE /\ IF CourseValid(c4)
                  THEN /\ categories' = cats
                       /\ courses' = [courses EXCEPT ![id] = c4]
                       /\ A(Ok)
                  ELSE /\ categories' = AfterFailedSave(categories, cats)
                       /\ UNCHANGED courses
                       /\ A(ErrorHandler(Ok, "ValidationError"))
               /\ UNCHANGED <<users, profiles, reviews, nextId, inflight>>

\* DELETE /api/courses/:id (protect, authorize('instructor', 'admin'))
DeleteCourse(tok, id) ==
    LET ch == Chain(tok, {"instructor", "admin"})
        A(status) == resp' = Resp("deleteCourse", tok, id, NoBody, ch.user, status)
    IN /\ resp = Idle
       /\ IF ch.status # Ok THEN A(ch.status) /\ UNCHANGED <<store, inflight>>
          ELSE IF id \notin DOMAIN courses
          THEN A(ErrorHandler(NotFound, "Error")) /\ UNCHANGED <<store, inflight>>
          ELSE IF NotOwnerNorAdmin(courses[id].instructor, ch.user)
          THEN A(ErrorHandler(Forbidden, "Error")) /\ UNCHANGED <<store, inflight>>
          ELSE /\ categories' = PullCourse(categories, id)
               /\ users' = PullEnrolled(users, id)
               /\ courses' = Remove(courses, id)
               /\ A(Ok)
               /\ UNCHANGED <<profiles, reviews, nextId, inflight>>

\* ------------------------------------------------------ public course reads
\* The response of a read: the documents returned, by course id.
Listing(op, tok, id, status, data) ==
    [op |-> op, tok |-> tok, id |-> id, body |-> NoBody, user |-> Null,
     status |-> status, data |-> data]
NoData == [c \in {} |-> Null]

RECURSIVE SumRatings(_, _)
\* this.reviews.reduce((acc, review) => acc + review.rating, 0)
SumRatings(rs, S) ==
    IF S = {} THEN 0
    ELSE LET r == CHOOSE x \in S : TRUE IN rs[r].rating + SumRatings(rs, S \ {r})

\* The twentieths k/20 (k odd, between 1 and 5) whose nearest double lies
\* below k/20: 1.15, 1.45, 1.65, 1.95, 2.05, 2.15, 2.55, 2.65, 3.05, 3.15,
\* 3.55, 3.65, 4.05, 4.35, 4.55, 4.85.  (x.25 and x.75 are doubles; the
\* doubles of the remaining ones lie above.)
DoubleBelow == {23, 29, 33, 39, 41, 43, 51, 53, 61, 63, 71, 73, 81, 87, 91, 97}

\* (sum / n).toFixed(1), in tenths: the tenth nearest to the double sum / n,
\* the larger one when the double is exactly halfway.  The double differs
\* from the quotient by less than 2^-50, so only a quotient that is exactly
\* halfway between two tenths is decided by the double's error.
ToFixed1(sum, n) ==
    LET lo == (10 * sum) \div n
        rem == (10 * sum) % n
    IN IF 2 * rem < n THEN lo
       ELSE IF 2 * rem > n THEN lo + 1
       ELSE IF (2 * lo + 1) \in DoubleBelow THEN lo
       ELSE lo + 1

\* virtual averageRating over the populated reviews of course c: the string
\* toFixed returns, or the number 0 without reviews.  tenths is its value.
AverageRating(rs, c) ==
    LET mine == {r \in DOMAIN rs : rs[r].course = c}
    IN IF mine # {}
       THEN [type |-> "string", tenths |-> ToFixed1(SumRatings(rs, mine), Cardinality(mine))]
       ELSE [type |-> "number", tenths |-> 0]

Doc(c, rating) ==
    [isPublished |-> courses[c].isPublished, instructor |-> courses[c].instructor,
     averageRating |-> rating]

\* GET /api/courses (public): Course.find({ isPublished: true }), reviews populated
GetAllCourses(tok) ==
    /\ resp = Idle
    /\ resp' = Listing("getAllCourses", tok, Null, Ok,
                       [c \in {x \in DOMAIN courses : courses[x].isPublished} |->
                           Doc(c, AverageRating(reviews, c))])
    /\ UNCHANGED <<store, inflight>>

\* GET /api/courses/:id (public): Course.findById, reviews populated
GetCourseById(tok, id) ==
    /\ resp = Idle
    /\ resp' = IF id \notin DOMAIN courses
               THEN Listing("getCourseById", tok, id, ErrorHandler(NotFound, "Error"), NoData)
               ELSE Listing("getCourseById", tok, id, Ok,
                            [c \in {id} |-> Doc(c, AverageRating(reviews, c))])
    /\ UNCHANGED <<store, inflight>>

\* GET /api/courses/instructor/:instructorId (public): Course.find({ instructor }),
\* reviews not populated
GetCoursesByInstructor(tok, instructorId) ==
    /\ resp = Idle
    /\ resp' = Listing("getCoursesByInstructor", tok, instructorId, Ok,
                       [c \in {x \in DOMAIN courses : courses[x].instructor = instructorId} |->
                           Doc(c, [type |-> "number", tenths |-> 0])])
    /\ UNCHANGED <<store, inflight>>

\* A membership test that never finds the account.
NeverEnrolled(id, user) == FALSE
\* An enrolment that forgets the account's side.
AddEnrolledNowhere(us, user, id) == us

\* course.enrolledStudents.includes(req.user._id)
IsEnrolled(id, user) == InSeq(user, courses[id].enrolledStudents)
\* User.findByIdAndUpdate(user, {$addToSet: {enrolledCourses: id}})
AddEnrolled(us, user, id) == [us EXCEPT ![user].enrolledCourses = @ \cup {id}]
\* User.findByIdAndUpdate(user, {$pull: {enrolledCourses: id}})
DropEnrolled(us, user, id) == [us EXCEPT ![user].enrolledCourses = @ \ {id}]

\* POST /api/courses/:id/enroll (protect)
EnrollInCourse(tok, id) ==
    LET ch == Chain(tok, {})
        A(status) == resp' = Resp("enrollInCourse", tok, id, NoBody, ch.user, status)
    IN /\ resp = Idle
       /\ IF ch.status # Ok THEN A(ch.status) /\ UNCHANGED <<store, inflight>>
          ELSE IF id \notin DOMAIN courses
          THEN A(ErrorHandler(NotFound, "Error")) /\ UNCHANGED <<store, inflight>>
          ELSE IF ch.user = Null
          THEN A(ErrorHandler(Ok, "TypeError")) /\ UNCHANGED <<store, inflight>>
          ELSE IF IsEnrolled(id, ch.user)
          THEN A(ErrorHandler(BadRequest, "Error")) /\ UNCHANGED <<store, inflight>>
          ELSE /\ courses' = [courses EXCEPT ![id].enrolledStudents = Append(@, ch.user)]
               /\ users' = AddEnrolled(users, ch.user, id)
               /\ A(Ok)
               /\ UNCHANGED <<profiles, categories, reviews, nextId, inflight>>

\* DELETE /api/courses/:id/enroll (protect)
UnenrollFromCourse(tok, id) ==
    LET ch == Chain(tok, {})
        A(status) == resp' = Resp("unenrollFromCourse", tok, id, NoBody, ch.user, status)
    IN /\ resp = Idle
       /\ IF ch.status # Ok THEN A(ch.status) /\ UNCHANGED <<store, inflight>>
          ELSE IF id \notin DOMAIN courses
          THEN A(ErrorHandler(NotFound, "Error")) /\ UNCHANGED <<store, inflight>>
          ELSE IF ch.user = Null
          THEN A(ErrorHandler(Ok, "TypeError")) /\ UNCHANGED <<store, inflight>>
          ELSE IF ~IsEnrolled(id, ch.user)
          THEN A(ErrorHandler(BadRequest, "Error")) /\ UNCHANGED <<store, inflight>>
          ELSE /\ courses' = [courses EXCEPT ![id].enrolledStudents = Without(@, ch.user)]
               /\ users' = DropEnrolled(users, ch.user, id)
               /\ A(Ok)
               /\ UNCHANGED <<profiles, categories, reviews, nextId, inflight>>

\* ================================================================= reviews
\* Review validation: rating required, 1..5; comment required.
RatingValid(r) == r >= MinRating /\ r <= MaxRating
ReviewBodyValid(body) ==
    /\ Has(body, "rating") /\ RatingValid(body.rating)
    /\ Truthy(body, "comment")

\* A collection without the unique index.
NoIndex(rs, u, c) == FALSE

\* reviewSchema.index({course: 1, user: 1}, {unique: true}): an insert of a
\* pair the collection already holds fails with a duplicate key error.
DuplicateKey(rs, u, c) == \E r \in DOMAIN rs : rs[r].user = u /\ rs[r].course = c

NewReview(body, user) ==
    [rating |-> body.rating, comment |-> body.comment, user |-> user, course |-> body.courseId]

\* POST /api/reviews (protect), run to completion
CreateReview(tok, body) ==
    LET ch == Chain(tok, {})
        id == nextId.review
        A(i, status) == resp' = Resp("createReview", tok, i, body, ch.user, status)
    IN /\ resp = Idle
       /\ IF ch.status # Ok THEN A(Null, ch.status) /\ UNCHANGED <<store, inflight>>
          ELSE IF body.courseId \notin DOMAIN courses
          THEN A(Null, ErrorHandler(NotFound, "Error")) /\ UNCHANGED <<store, inflight>>
          ELSE IF ch.user = Null
          THEN A(Null, ErrorHandler(Ok, "TypeError")) /\ UNCHANGED <<store, inflight>>
          ELSE IF ReviewBy(ch.user, body.courseId) # {}
          THEN A(Null, ErrorHandler(BadRequest, "Error")) /\ UNCHANGED <<store, inflight>>
          ELSE IF ~ReviewBodyValid(body)
          THEN A(Null, ErrorHandler(Ok, "ValidationError")) /\ UNCHANGED <<store, inflight>>
          ELSE IF DuplicateKey(reviews, ch.user, body.courseId)
          THEN A(Null, ErrorHandler(Ok, "E11000")) /\ UNCHANGED <<store, inflight>>
          ELSE /\ id <= MaxReviews
               /\ reviews' = reviews @@ (id :> NewReview(body, ch.user))
               /\ nextId' = [nextId EXCEPT !.review = id + 1]
               /\ A(id, Created)
               /\ UNCHANGED <<users, profiles, courses, categories, inflight>>

\* The same handler, one action per await, for request slot s.
Slot(pc, tok, body, user, status, at) ==
    [pc |-> pc, tok |-> tok, body |-> body, user |-> user, status |-> status, at |-> at]
Finish(s, status) ==
    inflight' = [inflight EXCEPT ![s] = [@ EXCEPT !.pc = "done", !.status = status, !.at = inflight[s].pc]]
Goto(s, pc) == inflight' = [inflight EXCEPT ![s].pc = pc]

\* protect: await User.findById(decoded.id)
CRProtect(s, tok, body) ==
    LET p == Protect(tok)
    IN /\ inflight[s].pc = "idle"
       /\ inflight' = [inflight EXCEPT ![s] =
             IF p.status # Ok THEN Slot("done", tok, body, Null, p.status, "protect")
             ELSE Slot("findCourse", tok, body, p.user, Null, "")]
       /\ UNCHANGED <<store, resp>>

\* await Course.findById(courseId)
CRFindCourse(s) ==
    /\ inflight[s].pc = "findCourse"
    /\ IF inflight[s].body.courseId \notin DOMAIN courses
       THEN Finish(s, ErrorHandler(NotFound, "Error"))
       ELSE Goto(s, "findOne")
    /\ UNCHANGED <<store, resp>>

\* await Review.findOne({user: req.user._id, course: courseId})
CRFindOne(s) ==
    /\ inflight[s].pc = "findOne"
    /\ IF inflight[s].user = Null THEN Finish(s, ErrorHandler(Ok, "TypeError"))
       ELSE IF ReviewBy(inflight[s].user, inflight[s].body.courseId) # {}
       THEN Finish(s, ErrorHandler(BadRequest, "Error"))
       ELSE Goto(s, "create")
    /\ UNCHANGED <<store, resp>>

\* await Review.create({...})
CRCreate(s) ==
    LET r == inflight[s]
        id == nextId.review
    IN /\ r.pc = "create"
       /\ IF ~ReviewBodyValid(r.body)
          THEN Finish(s, ErrorHandler(Ok, "ValidationError")) /\ UNCHANGED store
          ELSE IF DuplicateKey(reviews, r.user, r.body.courseId)
          THEN Finish(s, ErrorHandler(Ok, "E11000")) /\ UNCHANGED store
          ELSE /\ id <= MaxReviews
               /\ reviews' = reviews @@ (id :> NewReview(r.body, r.user))
               /\ nextId' = [nextId EXCEPT !.review = id + 1]
               /\ Finish(s, Created)
               /\ UNCHANGED <<users, profiles, courses, categories>>
       /\ UNCHANGED resp

\* The response of slot s is sent.
CRReply(s) ==
    /\ inflight[s].pc = "done"
    /\ inflight' = [inflight EXCEPT ![s] = [pc |-> "idle"]]
    /\ UNCHANGED <<store, resp>>

\* ------------------------------------------- register, updateUser by await
\* A request of any route between two awaits.
\* user and role are req.user as protect loaded it.
Req(pc, op, tok, id, body, user, role, status, at) ==
    [pc |-> pc, op |-> op, tok |-> tok, id |-> id, body |-> body, user |-> user,
     role |-> role, status |-> status, at |-> at]

\* A users collection without the unique index on email.
NoEmailIndex(us, e, self) == FALSE

\* email: unique: true.  An insert or update that would give a second
\* account the email e fails with a duplicate key error.
DuplicateEmail(us, e, self) == \E u \in DOMAIN us \ {self} : us[u].email = e

\* register: await User.findOne({ email })
RGFindOne(s, body) ==
    /\ inflight[s].pc = "idle"
    /\ inflight' = [inflight EXCEPT ![s] =
          IF UserByEmail(Lower(body.email)) # {}
          THEN Req("done", "register", NoToken, Null, body, Null, "",
                   ErrorHandler(BadRequest, "Error"), "rgFindOne")
          ELSE Req("rgCreate", "register", NoToken, Null, body, Null, "", Null, "")]
    /\ UNCHANGED <<store, resp>>

\* register: await User.create({ email, password, role: role || 'student' }),
\* then the test of firstName and lastName
RGCreate(s) ==
    LET r == inflight[s]
        body == r.body
        email == Lower(body.email)
        role == IF Truthy(body, "role") THEN body.role ELSE "student"
        uid == nextId.user
        userValid == /\ EmailFormatOk(email)
                     /\ Len(body.password) >= MinPasswordLen
                     /\ role \in Roles
    IN /\ r.pc = "rgCreate"
       /\ IF ~userValid
          THEN Finish(s, ErrorHandler(Ok, "ValidationError")) /\ UNCHANGED store
          ELSE IF DuplicateEmail(users, email, Null)
          THEN Finish(s, ErrorHandler(Ok, "E11000")) /\ UNCHANGED store
          ELSE /\ uid <= MaxUsers
               /\ users' = users @@ (uid :> [email |-> email,
                                             password |-> PreSavePassword(body.password,
                                                             {"email", "password", "role"}),
                                             role |-> role, profile |-> Null,
                                             enrolledCourses |-> {}])
               /\ nextId' = [nextId EXCEPT !.user = uid + 1]
               /\ inflight' = [inflight EXCEPT ![s] =
                     IF Truthy(body, "firstName") /\ Truthy(body, "lastName")
                     THEN [r EXCEPT !.pc = "rgProfile", !.id = uid]
                     ELSE [r EXCEPT !.pc = "done", !.id = uid, !.at = "rgCreate",
                                    !.status = ErrorHandler(BadRequest, "Error")]]
               /\ UNCHANGED <<profiles, courses, categories, reviews>>
       /\ UNCHANGED resp

\* register: await Profile.create({ user, firstName, lastName })
RGProfile(s) ==
    LET r == inflight[s]
        pid == nextId.profile
    IN /\ r.pc = "rgProfile"
       /\ IF Trim(r.body.firstName) = "" \/ Trim(r.body.lastName) = ""
          THEN Finish(s, ErrorHandler(Ok, "ValidationError")) /\ UNCHANGED store
          ELSE /\ profiles' = profiles @@
                     (pid :> [user |-> r.id, firstName |-> Trim(r.body.firstName),
                              lastName |-> Trim(r.body.lastName), bio |-> ""])
               /\ nextId' = [nextId EXCEPT !.profile = pid + 1]
               /\ inflight' = [inflight EXCEPT ![s] = [r EXCEPT !.pc = "rgLink", !.at = pid]]
               /\ UNCHANGED <<users, courses, categories, reviews>>
       /\ UNCHANGED resp

\* register: await User.findByIdAndUpdate(user._id, { profile }), then 201
RGLink(s) ==
    LET r == inflight[s]
    IN /\ r.pc = "rgLink"
       /\ users' = IF r.id \in DOMAIN users THEN [users EXCEPT ![r.id].profile = r.at]
                   ELSE users
       /\ Finish(s, Created)
       /\ UNCHANGED <<profiles, courses, categories, reviews, nextId, resp>>

\* updateUser: protect
UUProtect(s, tok, id, body) ==
    LET p == Protect(tok)
    IN /\ inflight[s].pc = "idle"
       /\ inflight' = [inflight EXCEPT ![s] =
             IF p.status # Ok
             THEN Req("done", "updateUser", tok, id, body, Null, "", p.status, "protect")
             ELSE Req("uuFind", "updateUser", tok, id, body, p.user,
                      IF p.user = Null THEN "" ELSE users[p.user].role, Null, "")]
       /\ UNCHANGED <<store, resp>>

\* updateUser: await User.findById(req.params.id), the ownership test and
\* the assignments to the loaded document
UUFind(s) ==
    LET r == inflight[s]
    IN /\ r.pc = "uuFind"
       /\ IF r.id \notin DOMAIN users THEN Finish(s, ErrorHandler(NotFound, "Error"))
          ELSE IF r.user = Null THEN Finish(s, ErrorHandler(Ok, "TypeError"))
          ELSE IF r.id # r.user /\ r.role # "admin"
          THEN Finish(s, ErrorHandler(Forbidden, "Error"))
          ELSE Goto(s, "uuSave")
       /\ UNCHANGED <<store, resp>>

\* updateUser: await user.save(): validates, then writes the modified paths
UUSave(s) ==
    LET r == inflight[s]
        setEmail == Truthy(r.body, "email")
        setRole == Truthy(r.body, "role") /\ r.role = "admin"
        email == IF setEmail THEN Lower(r.body.email) ELSE users[r.id].email
        role == IF setRole THEN r.body.role ELSE users[r.id].role
    IN /\ r.pc = "uuSave"
       /\ IF r.id \notin DOMAIN users
          THEN Finish(s, ErrorHandler(Ok, "DocumentNotFoundError")) /\ UNCHANGED store
          ELSE IF ~(EmailFormatOk(email) /\ role \in Roles)
          THEN Finish(s, ErrorHandler(Ok, "ValidationError")) /\ UNCHANGED store
          ELSE IF setEmail /\ DuplicateEmail(users, email, r.id)
          THEN Finish(s, ErrorHandler(Ok, "E11000")) /\ UNCHANGED store
          ELSE /\ users' = [users EXCEPT ![r.id].email = email, ![r.id].role = role,
                                         ![r.id].password =
                                            PreSavePassword(@, {f \in {"email"} : setEmail}
                                                               \cup {f \in {"role"} : setRole})]
               /\ Finish(s, Ok)
               /\ UNCHANGED <<profiles, courses, categories, reviews, nextId>>
       /\ UNCHANGED resp

\* ------------------------------------- course and enrolment routes by await
\* A request on course id between two awaits.  doc is the course as
\* Course.findById loaded it.  The version key __v of a course is not kept
\* as a number: fresh tells that no save has incremented it since the
\* request loaded the course, which is what a save that puts __v in its
\* filter tests.  alone is history, read by no handler: no other request has
\* been in progress since this one began.
NoDoc == [loaded |-> FALSE]
CourseReq(pc, op, tok, id, body, user, role, status, at) ==
    [pc |-> pc, op |-> op, tok |-> tok, id |-> id, body |-> body, user |-> user,
     role |-> role, status |-> status, at |-> at, doc |-> NoDoc, fresh |-> TRUE,
     alone |-> TRUE]
InProgress(r) == r.pc \notin {"idle", "done"}

\* The requests in flight once the request of slot s has begun with protect,
\* and authorize(roles) when the route has one: await
\* User.findById(decoded.id), then the role test on req.user as loaded.
Begin(s, op, tok, id, body, roles, next) ==
    LET ch == Chain(tok, roles)
        role == IF ch.user = Null THEN "" ELSE users[ch.user].role
        rec == IF ch.status # Ok
               THEN CourseReq("done", op, tok, id, body, ch.user, role, ch.status, "protect")
               ELSE CourseReq(next, op, tok, id, body, ch.user, role, Null, "")
    IN [x \in DOMAIN inflight |->
          IF x = s
          THEN [rec EXCEPT !.alone = \A w \in DOMAIN inflight \ {s} : ~InProgress(inflight[w])]
          ELSE IF InProgress(inflight[x]) THEN [inflight[x] EXCEPT !.alone = FALSE]
          ELSE inflight[x]]

\* A save that never puts __v in its filter.
NoVersionCheck(r) == FALSE

\* A save that sets a whole array puts the loaded __v in its filter and
\* fails with a VersionError when the stored __v has moved on.
VersionError(r) == ~r.fresh

\* A save that changes an array ($push, or $set of the whole array)
\* increments __v: the copies the other requests hold of course c are a
\* version behind.
Incremented(infl, s, c) ==
    [x \in DOMAIN infl |->
        IF x # s /\ InProgress(infl[x]) /\ infl[x].id = c /\ infl[x].doc # NoDoc
        THEN [infl[x] EXCEPT !.fresh = FALSE] ELSE infl[x]]

\* updateCourse: protect, authorize('instructor', 'admin')
UCProtect(s, tok, id, body) ==
    /\ inflight[s].pc = "idle"
    /\ inflight' = Begin(s, "updateCourse", tok, id, body, {"instructor", "admin"}, "ucFind")
    /\ UNCHANGED <<store, resp>>

\* updateCourse: await Course.findById(req.params.id), the ownership test
\* and the assignments to the loaded document
UCFind(s) ==
    LET r == inflight[s]
    IN /\ r.pc = "ucFind"
       /\ IF r.id \notin DOMAIN courses THEN Finish(s, ErrorHandler(NotFound, "Error"))
          ELSE IF courses[r.id].instructor # r.user /\ r.role # "admin"
          THEN Finish(s, ErrorHandler(Forbidden, "Error"))
          ELSE inflight' = [inflight EXCEPT ![s] =
                  [r EXCEPT !.doc = courses[r.id], !.fresh = TRUE,
                            !.pc = IF SetsCategories(r.body) THEN "ucPull" ELSE "ucSave"]]
       /\ UNCHANGED <<store, resp>>

\* updateCourse: await Category.updateMany({courses: id}, {$pull: ...})
UCPull(s) ==
    LET r == inflight[s]
    IN /\ r.pc = "ucPull"
       /\ categories' = PullCourse(categories, r.id)
       /\ Goto(s, "ucAdd")
       /\ UNCHANGED <<users, profiles, courses, reviews, nextId, resp>>

\* updateCourse: await Category.updateMany({_id: {$in: categories}}, {$addToSet: ...})
UCAdd(s) ==
    LET r == inflight[s]
    IN /\ r.pc = "ucAdd"
       /\ categories' = AddCourse(categories, r.body.categories, r.id)
       /\ Goto(s, "ucSave")
       /\ UNCHANGED <<users, profiles, courses, reviews, nextId, resp>>

\* updateCourse: await course.save(), which validates and writes the
\* modified paths (with the loaded __v in the filter when categories is one
\* of them), then the read of the answer
UCSave(s) ==
    LET r == inflight[s]
        d1 == IF Truthy(r.body, "title") THEN [r.doc EXCEPT !.title = Trim(r.body.title)]
              ELSE r.doc
        d2 == IF Has(r.body, "price") THEN [d1 EXCEPT !.price = r.body.price] ELSE d1
        d3 == IF Has(r.body, "isPublished") THEN [d2 EXCEPT !.isPublished = r.body.isPublished]
              ELSE d2
        d4 == IF SetsCategories(r.body) THEN [d3 EXCEPT !.categories = r.body.categories] ELSE d3
        setsArray == d4.categories # r.doc.categories
    IN /\ r.pc = "ucSave"
       /\ IF ~CourseValid(d4)
          THEN Finish(s, ErrorHandler(Ok, "ValidationError")) /\ UNCHANGED store
          ELSE IF r.id \notin DOMAIN courses
          THEN Finish(s, ErrorHandler(Ok, "DocumentNotFoundError")) /\ UNCHANGED store
          ELSE IF setsArray /\ VersionError(r)
          THEN Finish(s, ErrorHandler(Ok, "VersionError")) /\ UNCHANGED store
          ELSE /\ courses' = [courses EXCEPT ![r.id] =
                     [f \in DOMAIN @ |-> IF d4[f] # r.doc[f] THEN d4[f] ELSE @[f]]]
               /\ inflight' = [(IF setsArray THEN Incremented(inflight, s, r.id) ELSE inflight)
                                 EXCEPT ![s] = [r EXCEPT !.pc = "done", !.status = Ok,
                                                         !.at = "ucSave"]]
               /\ UNCHANGED <<users, profiles, categories, reviews, nextId>>
       /\ UNCHANGED resp

\* enrollInCourse: protect
ENProtect(s, tok, id) ==
    /\ inflight[s].pc = "idle"
    /\ inflight' = Begin(s, "enrollInCourse", tok, id, NoBody, {}, "enFind")
    /\ UNCHANGED <<store, resp>>

\* enrollInCourse: await Course.findById(req.params.id), the membership
\* test and the push on the loaded document
ENFind(s) ==
    LET r == inflight[s]
    IN /\ r.pc = "enFind"
       /\ IF r.id \notin DOMAIN courses THEN Finish(s, ErrorHandler(NotFound, "Error"))
          ELSE IF r.user = Null THEN Finish(s, ErrorHandler(Ok, "TypeError"))
          ELSE IF IsEnrolled(r.id, r.user) THEN Finish(s, ErrorHandler(BadRequest, "Error"))
          ELSE inflight' = [inflight EXCEPT ![s] =
                  [r EXCEPT !.doc = courses[r.id], !.fresh = TRUE, !.pc = "enSave"]]
       /\ UNCHANGED <<store, resp>>

\* enrollInCourse: await course.save().  The push is sent as
\* {$push: {enrolledStudents}, $inc: {__v: 1}} with the id alone in the
\* filter: it appends to the array as stored.
ENSave(s) ==
    LET r == inflight[s]
    IN /\ r.pc = "enSave"
       /\ IF r.id \notin DOMAIN courses
          THEN Finish(s, ErrorHandler(Ok, "DocumentNotFoundError")) /\ UNCHANGED store
          ELSE /\ courses' = [courses EXCEPT ![r.id].enrolledStudents = Append(@, r.user)]
               /\ inflight' = [Incremented(inflight, s, r.id) EXCEPT ![s].pc = "enUser"]
               /\ UNCHANGED <<users, profiles, categories, reviews, nextId>>
       /\ UNCHANGED resp

\* enrollInCourse: await User.findByIdAndUpdate(req.user._id, {$addToSet: ...})
ENUser(s) ==
    LET r == inflight[s]
    IN /\ r.pc = "enUser"
       /\ users' = IF r.user \in DOMAIN users THEN AddEnrolled(users, r.user, r.id) ELSE users
       /\ Finish(s, Ok)
       /\ UNCHANGED <<profiles, courses, categories, reviews, nextId, resp>>

\* unenrollFromCourse: protect
UNProtect(s, tok, id) ==
    /\ inflight[s].pc = "idle"
    /\ inflight' = Begin(s, "unenrollFromCourse", tok, id, NoBody, {}, "unFind")
    /\ UNCHANGED <<store, resp>>

\* unenrollFromCourse: await Course.findById(req.params.id), the membership
\* test and the assignment of the filtered array to the loaded document
UNFind(s) ==
    LET r == inflight[s]
    IN /\ r.pc = "unFind"
       /\ IF r.id \notin DOMAIN courses THEN Finish(s, ErrorHandler(NotFound, "Error"))
          ELSE IF r.user = Null THEN Finish(s, ErrorHandler(Ok, "TypeError"))
          ELSE IF ~IsEnrolled(r.id, r.user) THEN Finish(s, ErrorHandler(BadRequest, "Error"))
          ELSE inflight' = [inflight EXCEPT ![s] =
                  [r EXCEPT !.doc = courses[r.id], !.fresh = TRUE, !.pc = "unSave"]]
       /\ UNCHANGED <<store, resp>>

\* unenrollFromCourse: await course.save().  The array was assigned whole:
\* it is sent as {$set: {enrolledStudents}, $inc: {__v: 1}} with the loaded
\* __v in the filter, and replaces the array as stored by the loaded one
\* without the account.
UNSave(s) ==
    LET r == inflight[s]
    IN /\ r.pc = "unSave"
       /\ IF r.id \notin DOMAIN courses
          THEN Finish(s, ErrorHandler(Ok, "DocumentNotFoundError")) /\ UNCHANGED store
          ELSE IF VersionError(r)
          THEN Finish(s, ErrorHandler(Ok, "VersionError")) /\ UNCHANGED store
          ELSE /\ courses' = [courses EXCEPT ![r.id].enrolledStudents =
                                 Without(r.doc.enrolledStudents, r.user)]
               /\ inflight' = [Incremented(inflight, s, r.id) EXCEPT ![s].pc = "unUser"]
               /\ UNCHANGED <<users, profiles, categories, reviews, nextId>>
       /\ UNCHANGED resp

\* unenrollFromCourse: await User.findByIdAndUpdate(req.user._id, {$pull: ...})
UNUser(s) ==
    LET r == inflight[s]
    IN /\ r.pc = "unUser"
       /\ users' = IF r.user \in DOMAIN users THEN DropEnrolled(users, r.user, r.id) ELSE users
       /\ Finish(s, Ok)
       /\ UNCHANGED <<profiles, courses, categories, reviews, nextId, resp>>

\* deleteCourse: protect, authorize('instructor', 'admin')
DCProtect(s, tok, id) ==
    /\ inflight[s].pc = "idle"
    /\ inflight' = Begin(s, "deleteCourse", tok, id, NoBody, {"instructor", "admin"}, "dcFind")
    /\ UNCHANGED <<store, resp>>

\* deleteCourse: await Course.findById(req.params.id) and the ownership test
DCFind(s) ==
    LET r == inflight[s]
    IN /\ r.pc = "dcFind"
       /\ IF r.id \notin DOMAIN courses THEN Finish(s, ErrorHandler(NotFound, "Error"))
          ELSE IF courses[r.id].instructor # r.user /\ r.role # "admin"
          THEN Finish(s, ErrorHandler(Forbidden, "Error"))
          ELSE inflight' = [inflight EXCEPT ![s] =
                  [r EXCEPT !.doc = courses[r.id], !.fresh = TRUE, !.pc = "dcCategories"]]
       /\ UNCHANGED <<store, resp>>

\* deleteCourse: await Category.updateMany({courses: id}, {$pull: ...})
DCCategories(s) ==
    LET r == inflight[s]
    IN /\ r.pc = "dcCategories"
       /\ categories' = PullCourse(categories, r.id)
       /\ Goto(s, "dcUsers")
       /\ UNCHANGED <<users, profiles, courses, reviews, nextId, resp>>

\* deleteCourse: await User.updateMany({enrolledCourses: id}, {$pull: ...})
DCUsers(s) ==
    LET r == inflight[s]
    IN /\ r.pc = "dcUsers"
       /\ users' = PullEnrolled(users, r.id)
       /\ Goto(s, "dcDelete")
       /\ UNCHANGED <<profiles, courses, categories, reviews, nextId, resp>>

\* deleteCourse: await Course.findByIdAndDelete(req.params.id), then 200
DCDelete(s) ==
    LET r == inflight[s]
    IN /\ r.pc = "dcDelete"
       /\ courses' = IF r.id \in DOMAIN courses THEN Remove(courses, r.id) ELSE courses
       /\ Finish(s, Ok)
       /\ UNCHANGED <<users, profiles, categories, reviews, nextId, resp>>

\* login, its answer kept in slot s until it is sent: the account, its role
\* as stored at that moment and the token generateToken signed for it.
LGLogin(s, body) ==
    LET r == LoginResponse(users, body)
    IN /\ inflight[s].pc = "idle"
       /\ inflight' = [inflight EXCEPT ![s] =
             IF r.status = Ok
             THEN Req("done", "login", GenerateToken(r.user), r.user, body, Null,
                      users[r.user].role, Ok, "login")
             ELSE Req("done", "login", NoToken, Null, body, Null, "", r.status, "login")]
       /\ UNCHANGED <<store, resp>>

\* PUT /api/reviews/:id (protect)
UpdateReview(tok, id, body) ==
    LET ch == Chain(tok, {})
        A(status) == resp' = Resp("updateReview", tok, id, body, ch.user, status)
        r1 == IF Has(body, "rating") /\ body.rating # 0
              THEN [reviews[id] EXCEPT !.rating = body.rating] ELSE reviews[id]
        r2 == IF Truthy(body, "comment") THEN [r1 EXCEPT !.comment = body.comment] ELSE r1
    IN /\ resp = Idle
       /\ IF ch.status # Ok THEN A(ch.status) /\ UNCHANGED <<store, inflight>>
          ELSE IF id \notin DOMAIN reviews
          THEN A(ErrorHandler(NotFound, "Error")) /\ UNCHANGED <<store, inflight>>
          ELSE IF ch.user = Null
          THEN A(ErrorHandler(Ok, "TypeError")) /\ UNCHANGED <<store, inflight>>
          ELSE IF NotOwnerNorAdmin(reviews[id].user, ch.user)
          THEN A(ErrorHandler(Forbidden, "Error")) /\ UNCHANGED <<store, inflight>>
          ELSE IF ~RatingValid(r2.rating)
          THEN A(ErrorHandler(Ok, "ValidationError")) /\ UNCHANGED <<store, inflight>>
          ELSE /\ reviews' = [reviews EXCEPT ![id] = r2]
               /\ A(Ok)
               /\ UNCHANGED <<users, profiles, courses, categories, nextId, inflight>>

\* DELETE /api/reviews/:id (protect)
DeleteReview(tok, id) ==
    LET ch == Chain(tok, {})
        A(status) == resp' = Resp("deleteReview", tok, id, NoBody, ch.user, status)
    IN /\ resp = Idle
       /\ IF ch.status # Ok THEN A(ch.status) /\ UNCHANGED <<store, inflight>>
          ELSE IF id \notin DOMAIN reviews
          THEN A(ErrorHandler(NotFound, "Error")) /\ UNCHANGED <<store, inflight>>
          ELSE IF ch.user = Null
          THEN A(ErrorHandler(Ok, "TypeError")) /\ UNCHANGED <<store, inflight>>
          ELSE IF NotOwnerNorAdmin(reviews[id].user, ch.user)
          THEN A(ErrorHandler(Forbidden, "Error")) /\ UNCHANGED <<store, inflight>>
          ELSE /\ reviews' = Remove(reviews, id)
               /\ A(Ok)
               /\ UNCHANGED <<users, profiles, courses, categories, nextId, inflight>>

\* GET /api/reviews/user/:userId (protect)
GetReviewsByUser(tok, id) ==
    LET ch == Chain(tok, {})
    IN /\ resp = Idle
       /\ Answer("getReviewsByUser", tok, id, NoBody, ch.user, ch.status)

\* ================================================================ profiles
\* GET /api/profiles (protect, authorize('admin'))
GetAllProfiles(tok) ==
    LET ch == Chain(tok, {"admin"})
    IN /\ resp = Idle
       /\ Answer("getAllProfiles", tok, Null, NoBody, ch.user, ch.status)

\* GET /api/profiles/:userId (protect)
GetProfile(tok, id) ==
    LET ch == Chain(tok, {})
    IN /\ resp = Idle
       /\ Answer("getProfile", tok, id, NoBody, ch.user,
                 IF ch.status # Ok THEN ch.status
                 ELSE IF ProfileByUser(id) = {} THEN ErrorHandler(NotFound, "Error")
                 ELSE Ok)

\* PUT /api/profiles/:userId (protect)
UpdateProfile(tok, id, body) ==
    LET ch == Chain(tok, {})
        A(status) == resp' = Resp("updateProfile", tok, id, body, ch.user, status)
        Upd(p) ==
            LET p1 == IF Truthy(body, "firstName") THEN [p EXCEPT !.firstName = Trim(body.firstName)]
                      ELSE p
            IN IF Has(body, "bio") THEN [p1 EXCEPT !.bio = body.bio] ELSE p1
    IN /\ resp = Idle
       /\ IF ch.status # Ok THEN A(ch.status) /\ UNCHANGED <<store, inflight>>
          ELSE IF ch.user = Null
          THEN A(ErrorHandler(Ok, "TypeError")) /\ UNCHANGED <<store, inflight>>
          ELSE IF NotOwnerNorAdmin(id, ch.user)
          THEN A(ErrorHandler(Forbidden, "Error")) /\ UNCHANGED <<store, inflight>>
          ELSE IF ProfileByUser(id) = {}
          THEN A(ErrorHandler(NotFound, "Error")) /\ UNCHANGED <<store, inflight>>
          ELSE \E p \in ProfileByUser(id) :
               IF Upd(profiles[p]).firstName = ""
               THEN A(ErrorHandler(Ok, "ValidationError")) /\ UNCHANGED <<store, inflight>>
               ELSE /\ profiles' = [profiles EXCEPT ![p] = Upd(@)]
                    /\ A(Ok)
                    /\ UNCHANGED <<users, courses, categories, reviews, nextId, inflight>>

\* ============================================================== categories
CategoryByName(n) == {k \in DOMAIN categories : categories[k].name = n}

\* POST /api/categories (protect, authorize('admin'))
CreateCategory(tok, body) ==
    LET ch == Chain(tok, {"admin"})
        id == nextId.category
        A(i, status) == resp' = Resp("createCategory", tok, i, body, ch.user, status)
    IN /\ resp = Idle
       /\ IF ch.status # Ok THEN A(Null, ch.status) /\ UNCHANGED <<store, inflight>>
          ELSE IF Has(body, "name") /\ CategoryByName(Trim(body.name)) # {}
          THEN A(Null, ErrorHandler(BadRequest, "Error")) /\ UNCHANGED <<store, inflight>>
          ELSE IF ~Has(body, "name") \/ Trim(body.name) = ""
          THEN A(Null, ErrorHandler(Ok, "ValidationError")) /\ UNCHANGED <<store, inflight>>
          ELSE /\ id <= MaxCategories
               /\ categories' = categories @@
                     (id :> [name |-> Trim(body.name),
                             description |-> IF Has(body, "description") THEN body.description
                                             ELSE "",
                             courses |-> {}])
               /\ nextId' = [nextId EXCEPT !.category = id + 1]
               /\ A(id, Created)
               /\ UNCHANGED <<users, profiles, courses, reviews, inflight>>

\* PUT /api/categories/:id (protect, authorize('admin'))
UpdateCategory(tok, id, body) ==
    LET ch == Chain(tok, {"admin"})
        A(status) == resp' = Resp("updateCategory", tok, id, body, ch.user, status)
        k1 == IF Truthy(body, "name") THEN [categories[id] EXCEPT !.name = Trim(body.name)]
              ELSE categories[id]
        k2 == IF Has(body, "description") THEN [k1 EXCEPT !.description = body.description]
              ELSE k1
    IN /\ resp = Idle
       /\ IF ch.status # Ok THEN A(ch.status) /\ UNCHANGED <<store, inflight>>
          ELSE IF id \notin DOMAIN categories
          THEN A(ErrorHandler(NotFound, "Error")) /\ UNCHANGED <<store, inflight>>
          ELSE IF k2.name = ""
          THEN A(ErrorHandler(Ok, "ValidationError")) /\ UNCHANGED <<store, inflight>>
          ELSE IF CategoryByName(k2.name) \ {id} # {}
          THEN A(ErrorHandler(Ok, "E11000")) /\ UNCHANGED <<store, inflight>>
          ELSE /\ categories' = [categories EXCEPT ![id] = k2]
               /\ A(Ok)
               /\ UNCHANGED <<users, profiles, courses, reviews, nextId, inflight>>

\* A deletion that pulls the category from the courses that name it.
PullCategory(cs, id) == [c \in DOMAIN cs |-> [cs[c] EXCEPT !.categories = @ \ {id}]]

\* The courses after deleteCategory: the handler makes two calls,
\* Category.findById and Category.findByIdAndDelete, and none on Course.
CoursesOnDeleteCategory(cs, id) == cs

\* DELETE /api/categories/:id (protect, authorize('admin'))
DeleteCategory(tok, id) ==
    LET ch == Chain(tok, {"admin"})
        A(status) == resp' = Resp("deleteCategory", tok, id, NoBody, ch.user, status)
    IN /\ resp = Idle
       /\ IF ch.status # Ok THEN A(ch.status) /\ UNCHANGED <<store, inflight>>
          ELSE IF id \notin DOMAIN categories
          THEN A(ErrorHandler(NotFound, "Error")) /\ UNCHANGED <<store, inflight>>
          ELSE /\ categories' = Remove(categories, id)
               /\ courses' = CoursesOnDeleteCategory(courses, id)
               /\ A(Ok)
               /\ UNCHANGED <<users, profiles, reviews, nextId, inflight>>

\* ============================================================ input sets
\* Tokens a client can present: the invalid ones, and a valid one for every
\* account id ever created (obtained at registration or login; jwt.verify
\* keeps no record of accounts).
ValidTokens == {GenerateToken(u) : u \in 1..(nextId.user - 1)}
Tokens == InvalidTokens \cup ValidTokens
UserIds == 1..MaxUsers

RegisterBodies ==
    {[email |-> e, password |-> "secret1", firstName |-> "A", lastName |-> "B", role |-> r] :
        e \in {"new@x.com", "STUDENT@X.COM"}, r \in {"instructor", "admin"}}
    \cup {[email |-> "new@x.com", password |-> "secret1", firstName |-> "A", lastName |-> "B"],
          [email |-> "new@x.com", password |-> "secret1", lastName |-> "B"],
          [email |-> "new@x.com", password |-> "secret1", firstName |-> "A", lastName |-> " "],
          [email |-> "new@x.com", password |-> "short", firstName |-> "A", lastName |-> "B"],
          [email |-> "bad", password |-> "secret1", firstName |-> "A", lastName |-> "B"]}
LoginBodies ==
    {[email |-> e, password |-> pw] :
        e \in {"student@x.com", "new@x.com"}, pw \in {"student123", "secret1"}}
    \cup {[email |-> e] : e \in {"student@x.com", "new@x.com"}}
UpdateUserBodies ==
    {[role |-> "admin"], [role |-> "student"], [email |-> "new@x.com"]}
CourseIds == 1..MaxCourses
CategoryIds == 1..MaxCategories
CreateCourseBodies ==
    {[title |-> "Node", price |-> 0, categories |-> {1, 2}],
     [title |-> "Node", price |-> 0, isPublished |-> TRUE],
     [price |-> 0], [title |-> " ", price |-> 0]}
UpdateCourseBodies ==
    {[categories |-> {}], [categories |-> {2}], [categories |-> {1, 2}],
     [categories |-> {2}, price |-> -1], [title |-> "Vue", isPublished |-> FALSE]}

ReviewIds == 1..MaxReviews
Slots == 1..MaxInflight
CreateReviewBodies ==
    {[rating |-> 4, comment |-> "c", courseId |-> 1],
     [rating |-> 0, comment |-> "c", courseId |-> 1],
     [rating |-> 4, comment |-> "c", courseId |-> 2]}
ReviewerTokens == {NoToken} \cup {GenerateToken(u) : u \in {Instructor2Id, StudentId}}

\* ================================================================== specs
\* Accounts: registration, login, account update and deletion.
NextAuth ==
    \/ \E b \in RegisterBodies : Register(b)
    \/ \E b \in LoginBodies : Login(b)
    \/ \E t \in ValidTokens, id \in UserIds, b \in UpdateUserBodies : UpdateUser(t, id, b)
    \/ \E t \in ValidTokens, id \in UserIds : DeleteUser(t, id)
    \/ \E t \in ValidTokens : GetMe(t)
    \/ Reply
SpecAuth == Init /\ [][NextAuth]_vars

\* Courses: creation, update, deletion.
NextCourse ==
    \/ \E t \in ValidTokens, b \in CreateCourseBodies : CreateCourse(t, b)
    \/ \E t \in ValidTokens, id \in CourseIds, b \in UpdateCourseBodies : UpdateCourse(t, id, b)
    \/ \E t \in ValidTokens, id \in CourseIds : DeleteCourse(t, id)
    \/ Reply
SpecCourse == Init /\ [][NextCourse]_vars

\* Enrolment: courses are created and deleted, accounts enrol and leave.
MemberTokens == {GenerateToken(u) : u \in {InstructorId, Instructor2Id, StudentId}}
NextEnroll ==
    \/ \E t \in MemberTokens : CreateCourse(t, [title |-> "Node", price |-> 0])
    \/ \E t \in MemberTokens, id \in CourseIds : DeleteCourse(t, id)
    \/ \E t \in MemberTokens, id \in CourseIds : EnrollInCourse(t, id)
    \/ \E t \in MemberTokens, id \in CourseIds : UnenrollFromCourse(t, id)
    \/ Reply
SpecEnroll == Init /\ [][NextEnroll]_vars

\* Reviews: createReview requests interleaved at their awaits.
NextReview ==
    \/ \E s \in Slots, t \in ReviewerTokens, b \in CreateReviewBodies : CRProtect(s, t, b)
    \/ \E s \in Slots : CRFindCourse(s)
    \/ \E s \in Slots : CRFindOne(s)
    \/ \E s \in Slots : CRCreate(s)
    \/ \E s \in Slots : CRReply(s)
SpecReview == Init /\ [][NextReview]_vars

\* Emails: registrations and email changes interleaved at their awaits.
EmailRegisterBodies ==
    {[email |-> e, password |-> "secret1", firstName |-> "A", lastName |-> "B"] :
        e \in {"new@x.com", " new@x.com ", "STUDENT@X.COM"}}
EmailUpdateBodies == {[email |-> "new@x.com"], [email |-> "sarah@x.com"]}
EmailTokens == {GenerateToken(u) : u \in {AdminId, Instructor2Id, StudentId}}
NextEmail ==
    \/ \E s \in Slots, b \in EmailRegisterBodies : RGFindOne(s, b)
    \/ \E s \in Slots : RGCreate(s)
    \/ \E s \in Slots : RGProfile(s)
    \/ \E s \in Slots : RGLink(s)
    \/ \E s \in Slots, t \in EmailTokens, id \in {Instructor2Id, StudentId},
          b \in EmailUpdateBodies : UUProtect(s, t, id, b)
    \/ \E s \in Slots : UUFind(s)
    \/ \E s \in Slots : UUSave(s)
    \/ \E s \in Slots : CRReply(s)
SpecEmail == Init /\ [][NextEmail]_vars

\* Ownership: courses are created, updated and deleted with bodies that
\* carry an instructor field.
OwnerCreateBodies == {[title |-> "Node", price |-> 0, instructor |-> StudentId]}
OwnerUpdateBodies ==
    {[instructor |-> Instructor2Id], [title |-> "Vue", instructor |-> StudentId]}
NextOwner ==
    \/ \E t \in ValidTokens, b \in OwnerCreateBodies : CreateCourse(t, b)
    \/ \E t \in ValidTokens, id \in CourseIds, b \in OwnerUpdateBodies : UpdateCourse(t, id, b)
    \/ \E t \in ValidTokens, id \in CourseIds : DeleteCourse(t, id)
    \/ Reply
SpecOwner == Init /\ [][NextOwner]_vars

\* Drafts: courses are created as drafts or published, published and
\* withdrawn, and read through the public routes.
DraftCreateBodies == {[title |-> "Node", price |-> 0],
                      [title |-> "Node", price |-> 0, isPublished |-> TRUE]}
DraftUpdateBodies == {[isPublished |-> FALSE], [isPublished |-> TRUE]}
ReaderTokens == {NoToken} \cup {GenerateToken(u) : u \in {InstructorId, StudentId}}
NextDraft ==
    \/ \E t \in MemberTokens, b \in DraftCreateBodies : CreateCourse(t, b)
    \/ \E t \in MemberTokens, id \in CourseIds, b \in DraftUpdateBodies : UpdateCourse(t, id, b)
    \/ \E t \in ReaderTokens : GetAllCourses(t)
    \/ \E t \in ReaderTokens, id \in CourseIds : GetCourseById(t, id)
    \/ \E t \in ReaderTokens, i \in {InstructorId, Instructor2Id} : GetCoursesByInstructor(t, i)
    \/ Reply
SpecDraft == Init /\ [][NextDraft]_vars

\* Ratings: the course of the seed with any number of reviews up to
\* MaxRatings, by the student and by accounts registered after the seed (of
\* which only the ids are kept), n[k] of them with rating k; the listing is
\* read.
RatingsOf(n) ==
    [i \in 1..(n[1] + n[2] + n[3] + n[4] + n[5]) |->
        [rating |-> IF i <= n[1] THEN 1
                    ELSE IF i <= n[1] + n[2] THEN 2
                    ELSE IF i <= n[1] + n[2] + n[3] THEN 3
                    ELSE IF i <= n[1] + n[2] + n[3] + n[4] THEN 4
                    ELSE 5,
         comment |-> "c", user |-> StudentId + i - 1, course |-> 1]]
InitRatings ==
    /\ \E n1 \in 0..MaxRatings : \E n2 \in 0..(MaxRatings - n1) :
       \E n3 \in 0..(MaxRatings - n1 - n2) : \E n4 \in 0..(MaxRatings - n1 - n2 - n3) :
       \E n5 \in 0..(MaxRatings - n1 - n2 - n3 - n4) :
          LET n == <<n1, n2, n3, n4, n5>>
              count == n1 + n2 + n3 + n4 + n5
          IN /\ reviews = RatingsOf(n)
             /\ nextId = [user |-> IF count = 0 THEN 5 ELSE StudentId + count,
                          profile |-> 5, course |-> 2, category |-> 3, review |-> count + 1]
    /\ users = (AdminId :> SeedUser("admin@x.com", "admin123", "admin", 1, {}))
            @@ (InstructorId :> SeedUser("prof@x.com", "instructor123", "instructor", 2, {}))
            @@ (Instructor2Id :> SeedUser("sarah@x.com", "instructor123", "instructor", 3, {}))
            @@ (StudentId :> SeedUser("student@x.com", "student123", "student", 4, {1}))
    /\ profiles = (1 :> SeedProfile(AdminId, "Admin", "System"))
            @@ (2 :> SeedProfile(InstructorId, "Mohamed", "Ben Ali"))
            @@ (3 :> SeedProfile(Instructor2Id, "Sarah", "Mansouri"))
            @@ (4 :> SeedProfile(StudentId, "Ahmed", "Trabelsi"))
    /\ categories = (1 :> [name |-> "web", description |-> "d", courses |-> {1}])
            @@ (2 :> [name |-> "data", description |-> "d", courses |-> {}])
    /\ courses = (1 :> [title |-> "React", price |-> 50, instructor |-> InstructorId,
                        categories |-> {1}, enrolledStudents |-> <<StudentId>>,
                        isPublished |-> TRUE])
    /\ resp = Idle
    /\ inflight = [s \in 1..MaxInflight |-> [pc |-> "idle"]]
NextRating ==
    \/ GetAllCourses(NoToken)
    \/ Reply
SpecRating == InitRatings /\ [][NextRating]_vars

\* Review ownership: reviews are created, changed and deleted by the admin,
\* an instructor and the student, with bodies that name another author.
OwnReviewCreateBodies ==
    {[rating |-> 4, comment |-> "c", courseId |-> 1],
     [rating |-> 3, comment |-> "c", courseId |-> 1, user |-> AdminId]}
OwnReviewUpdateBodies == {[rating |-> 2], [comment |-> "x", user |-> Instructor2Id]}
OwnReviewTokens == {GenerateToken(u) : u \in {AdminId, Instructor2Id, StudentId}}
NextReviewOwn ==
    \/ \E t \in OwnReviewTokens, b \in OwnReviewCreateBodies : CreateReview(t, b)
    \/ \E t \in OwnReviewTokens, id \in ReviewIds, b \in OwnReviewUpdateBodies :
          UpdateReview(t, id, b)
    \/ \E t \in OwnReviewTokens, id \in ReviewIds : DeleteReview(t, id)
    \/ Reply
SpecReviewOwn == Init /\ [][NextReviewOwn]_vars

\* Categories: every kind of caller creates, renames and deletes categories,
\* instructors attach courses to them, and the admin role is given and taken.
CategoryCreateBodies == {[name |-> "ai", description |-> "x"], [name |-> "web"]}
CategoryUpdateBodies == {[name |-> "data"], [description |-> "new"]}
CategoryRoleBodies == {[role |-> "admin"], [role |-> "student"]}
NextCategory ==
    \/ \E t \in Tokens, b \in CategoryCreateBodies : CreateCategory(t, b)
    \/ \E t \in Tokens, id \in {1, 2}, b \in CategoryUpdateBodies : UpdateCategory(t, id, b)
    \/ \E t \in Tokens, id \in {1, 2} : DeleteCategory(t, id)
    \/ \E t \in MemberTokens : CreateCourse(t, [title |-> "Node", price |-> 0, categories |-> {2}])
    \/ \E t \in ValidTokens, id \in {AdminId, Instructor2Id}, b \in CategoryRoleBodies :
          UpdateUser(t, id, b)
    \/ Reply
SpecCategory == Init /\ [][NextCategory]_vars

\* Accounts: every account tries to change and to delete the accounts of
\* the second instructor and of the student.
AccountBodies == {[email |-> "new@x.com"], [role |-> "admin"]}
NextAccount ==
    \/ \E t \in Tokens, id \in {Instructor2Id, StudentId}, b \in AccountBodies :
          UpdateUser(t, id, b)
    \/ \E t \in Tokens, id \in {Instructor2Id, StudentId} : DeleteUser(t, id)
    \/ Reply
SpecAccount == Init /\ [][NextAccount]_vars

\* Every protected route, with every kind of token, on the seed's documents.
\* Bodies are the smallest that reach the end of the handler.
NextGuard ==
    \/ \E t \in Tokens : GetMe(t)
    \/ \E t \in Tokens : Logout(t)
    \/ \E t \in Tokens : GetAllUsers(t)
    \/ \E t \in Tokens : GetUserById(t, StudentId)
    \/ \E t \in Tokens : UpdateUser(t, StudentId, [role |-> "instructor"])
    \/ \E t \in Tokens : DeleteUser(t, StudentId)
    \/ \E t \in Tokens : GetAllProfiles(t)
    \/ \E t \in Tokens : GetProfile(t, StudentId)
    \/ \E t \in Tokens : UpdateProfile(t, StudentId, [empty |-> TRUE])
    \/ \E t \in Tokens : CreateCourse(t, [price |-> 0])
    \/ \E t \in Tokens : UpdateCourse(t, 1, [empty |-> TRUE])
    \/ \E t \in Tokens : DeleteCourse(t, 1)
    \/ \E t \in Tokens : EnrollInCourse(t, 1)
    \/ \E t \in Tokens : UnenrollFromCourse(t, 1)
    \/ \E t \in Tokens : CreateReview(t, [rating |-> 0, comment |-> "c", courseId |-> 1])
    \/ \E t \in Tokens : UpdateReview(t, 1, [empty |-> TRUE])
    \/ \E t \in Tokens : DeleteReview(t, 1)
    \/ \E t \in Tokens : GetReviewsByUser(t, StudentId)
    \/ \E t \in Tokens : CreateCategory(t, [description |-> "x"])
    \/ \E t \in Tokens : UpdateCategory(t, 1, [empty |-> TRUE])
    \/ \E t \in Tokens : DeleteCategory(t, 1)
    \/ Reply
SpecGuard == Init /\ [][NextGuard]_vars

\* Demotion: the admin changes the role of the first instructor, who goes
\* on updating and deleting the course of the seed; courses are created.
DemoteTokens == {GenerateToken(u) : u \in {AdminId, InstructorId, Instructor2Id}}
NextDemote ==
    \/ \E t \in DemoteTokens, b \in {[role |-> "student"], [role |-> "instructor"]} :
          UpdateUser(t, InstructorId, b)
    \/ \E t \in DemoteTokens : CreateCourse(t, [title |-> "Node", price |-> 0])
    \/ \E t \in DemoteTokens, id \in CourseIds,
          b \in {[title |-> "Vue"], [price |-> -1], [categories |-> {2}]} :
          UpdateCourse(t, id, b)
    \/ \E t \in DemoteTokens, id \in CourseIds : DeleteCourse(t, id)
    \/ Reply
SpecDemote == Init /\ [][NextDemote]_vars

\* Passwords: the email and the role of the student's account are changed,
\* by the account and by the admin, an account is registered, and both log
\* in with the password they registered with and with another one.
PasswordUpdateBodies ==
    {[email |-> "new@x.com"], [email |-> "student@x.com"], [role |-> "instructor"],
     [email |-> "new@x.com", role |-> "student"]}
NextPassword ==
    \/ Register([email |-> "other@x.com", password |-> "secret1",
                 firstName |-> "A", lastName |-> "B"])
    \/ \E u \in {AdminId, StudentId, 5}, id \in {StudentId, 5}, b \in PasswordUpdateBodies :
          UpdateUser(GenerateToken(u), id, b)
    \/ \E e \in {"student@x.com", "new@x.com", "other@x.com"}, pw \in {"student123", "secret1"} :
          Login([email |-> e, password |-> pw])
    \/ Reply
SpecPassword == Init /\ [][NextPassword]_vars

\* Other fields: courses are created in categories and updated with bodies
\* that carry no categories field, and with one that does.
FrameUpdateBodies ==
    {[title |-> "Vue"], [price |-> 10, isPublished |-> FALSE], [price |-> -1],
     [empty |-> TRUE], [categories |-> {2}]}
NextFrame ==
    \/ \E t \in MemberTokens :
          CreateCourse(t, [title |-> "Node", price |-> 0, categories |-> {1, 2}])
    \/ \E t \in MemberTokens, id \in CourseIds, b \in FrameUpdateBodies : UpdateCourse(t, id, b)
    \/ Reply
SpecFrame == Init /\ [][NextFrame]_vars

\* Failed saves: courses are created in categories and updated with bodies
\* whose categories are accepted and whose price or title is not.
PartialUpdateBodies ==
    {[categories |-> {2}, price |-> -1], [categories |-> {}, title |-> " "],
     [categories |-> {1, 2}], [price |-> -1], [price |-> 5]}
NextPartial ==
    \/ \E u \in {AdminId, InstructorId, Instructor2Id, StudentId} :
          CreateCourse(GenerateToken(u), [title |-> "Node", price |-> 0, categories |-> {1}])
    \/ \E u \in {AdminId, InstructorId, Instructor2Id, StudentId}, id \in CourseIds,
          b \in PartialUpdateBodies : UpdateCourse(GenerateToken(u), id, b)
    \/ Reply
SpecPartial == Init /\ [][NextPartial]_vars

\* Category races: updateCourse requests of the course's instructor and of
\* the other instructor on the course of the seed, with different category
\* lists, interleaved at their awaits.
NextRace ==
    \/ \E s \in Slots, u \in {InstructorId, Instructor2Id},
          b \in {[categories |-> {1}], [categories |-> {2}]} :
          UCProtect(s, GenerateToken(u), 1, b)
    \/ \E s \in Slots : UCFind(s)
    \/ \E s \in Slots : UCPull(s)
    \/ \E s \in Slots : UCAdd(s)
    \/ \E s \in Slots : UCSave(s)
    \/ \E s \in Slots : CRReply(s)
SpecRace == Init /\ [][NextRace]_vars

\* Tokens: the second instructor and the student log in, roles are changed
\* (by whoever is admin at the time), and routes behind authorize are
\* called with the tokens of both.
TokenLoginBodies ==
    {[email |-> "sarah@x.com", password |-> "instructor123"],
     [email |-> "student@x.com", password |-> "student123"],
     [email |-> "student@x.com", password |-> "secret1"]}
TokenHolders == {Instructor2Id, StudentId}
NextToken ==
    \/ \E s \in Slots, b \in TokenLoginBodies : LGLogin(s, b)
    \/ \E s \in Slots : CRReply(s)
    \/ \E u \in {AdminId} \cup TokenHolders, id \in TokenHolders, ro \in Roles :
          UpdateUser(GenerateToken(u), id, [role |-> ro])
    \/ \E u \in TokenHolders : GetAllUsers(GenerateToken(u))
    \/ \E u \in TokenHolders : CreateCourse(GenerateToken(u), [price |-> 0])
    \/ \E u \in TokenHolders : GetMe(GenerateToken(u))
    \/ Reply
SpecToken == Init /\ [][NextToken]_vars

\* Enrolment races: the second instructor and the admin enrol in the course
\* of the seed, its instructor deletes it, interleaved at their awaits.
NextEnrolRace ==
    \/ \E s \in Slots, u \in {AdminId, Instructor2Id} : ENProtect(s, GenerateToken(u), 1)
    \/ \E s \in Slots : ENFind(s)
    \/ \E s \in Slots : ENSave(s)
    \/ \E s \in Slots : ENUser(s)
    \/ \E s \in Slots, u \in {InstructorId, Instructor2Id} : DCProtect(s, GenerateToken(u), 1)
    \/ \E s \in Slots : DCFind(s)
    \/ \E s \in Slots : DCCategories(s)
    \/ \E s \in Slots : DCUsers(s)
    \/ \E s \in Slots : DCDelete(s)
    \/ \E s \in Slots : CRReply(s)
SpecEnrolRace == Init /\ [][NextEnrolRace]_vars

\* Enrolment against withdrawal: the second instructor and the admin enrol
\* in the course of the seed while the student, enrolled by the seed,
\* leaves it, interleaved at their awaits.
NextSwap ==
    \/ \E s \in Slots, u \in {AdminId, Instructor2Id} : ENProtect(s, GenerateToken(u), 1)
    \/ \E s \in Slots : ENFind(s)
    \/ \E s \in Slots : ENSave(s)
    \/ \E s \in Slots : ENUser(s)
    \/ \E s \in Slots : UNProtect(s, GenerateToken(StudentId), 1)
    \/ \E s \in Slots : UNFind(s)
    \/ \E s \in Slots : UNSave(s)
    \/ \E s \in Slots : UNUser(s)
    \/ \E s \in Slots : CRReply(s)
SpecSwap == Init /\ [][NextSwap]_vars

\* ================================================================== claims
\* The principal of a request: the account a valid token names, if it exists.
Authenticated(r) == r.tok.kind = "valid" /\ r.tok.id \in DOMAIN users

\* C1: after any sequence of completed createCourse, updateCourse and
\* deleteCourse requests, for every existing course C and category K,
\* K is in C.categories if and only if C is in K.courses.
C1_CategoriesMutual ==
    \A c \in DOMAIN courses : \A k \in DOMAIN categories :
        k \in courses[c].categories <=> c \in categories[k].courses

\* C2: after any sequence of completed enroll, unenroll and deleteCourse
\* requests, for every existing course C and account A, A is in
\* C.enrolledStudents if and only if C is in A.enrolledCourses.
C2_EnrolmentMutual ==
    \A c \in DOMAIN courses : \A a \in DOMAIN users :
        InSeq(a, courses[c].enrolledStudents) <=> c \in users[a].enrolledCourses
\* An account has left a course in which another account is still enrolled.
C2_Witness ==
    /\ resp.op = "unenrollFromCourse" /\ resp.status = Ok
    /\ resp.id \in DOMAIN courses
    /\ Len(courses[resp.id].enrolledStudents) >= 1
    /\ \E c \in DOMAIN courses : c # resp.id /\ InSeq(resp.tok.id, courses[c].enrolledStudents)

\* C3: in every reachable state there is at most one Review per (account,
\* course) pair, also when two createReview requests of one account for
\* one course interleave between the existence check and the insert; the
\* request that inserts second is answered 400 and creates nothing.
C3_OneReviewPerPair ==
    /\ [](\A r1 \in DOMAIN reviews : \A r2 \in DOMAIN reviews :
            (reviews[r1].user = reviews[r2].user /\ reviews[r1].course = reviews[r2].course)
            => r1 = r2)
    /\ [][ \A s \in Slots :
             ( /\ inflight[s].pc = "create" /\ inflight'[s].pc = "done"
               /\ \E r \in DOMAIN reviews :
                     /\ reviews[r].user = inflight[s].tok.id
                     /\ reviews[r].course = inflight[s].body.courseId )
             => (inflight'[s].status = BadRequest /\ reviews' = reviews)
         ]_vars
\* Both requests passed the existence check; one inserted (201) and the
\* other, with a valid body for the same pair, was refused at the insert.
C3_Witness ==
    \E s \in Slots : \E w \in Slots :
        /\ inflight[s].pc = "done" /\ inflight[s].at = "create"
        /\ inflight[s].status = BadRequest /\ ReviewBodyValid(inflight[s].body)
        /\ inflight[w].pc = "done" /\ inflight[w].status = Created
        /\ inflight[w].tok = inflight[s].tok
        /\ inflight[w].body.courseId = inflight[s].body.courseId

\* C4: no request of an anonymous caller or of a non-admin principal
\* produces an account whose role is admin, and an account's role changes
\* only through a request of a principal whose role is already admin.
C4_OnlyAdminGrantsRole ==
    [][ \A u \in DOMAIN users' :
          ( \/ (u \notin DOMAIN users /\ users'[u].role = "admin")
            \/ (u \in DOMAIN users /\ users'[u].role # users[u].role) )
          => (Authenticated(resp') /\ users[resp'.tok.id].role = "admin")
      ]_vars

\* C5: a registration that lacks firstName or lastName is answered 400 and
\* leaves the store unchanged (no Account and no Profile is created).
C5_RegisterAllOrNothing ==
    [][ ( /\ resp'.op = "register"
          /\ (~Truthy(resp'.body, "firstName") \/ ~Truthy(resp'.body, "lastName")) )
        => (resp'.status = BadRequest /\ users' = users /\ profiles' = profiles)
      ]_vars

\* C6: after any sequence of registrations every existing Account has
\* exactly one Profile, whose user field is the Account's id and whose id is
\* the Account's profile field, and no Profile is referenced by two Accounts.
C6_OneProfilePerAccount ==
    /\ \A a \in DOMAIN users :
          /\ Cardinality(ProfileByUser(a)) = 1
          /\ users[a].profile \in ProfileByUser(a)
    /\ \A a \in DOMAIN users : \A b \in DOMAIN users :
          (users[a].profile = users[b].profile /\ users[a].profile # Null) => a = b

\* C7: an enroll request by an account already in the course's
\* enrolledStudents is answered 400, an unenroll request by an account not
\* in it is answered 400, and both leave Course.enrolledStudents and
\* Account.enrolledCourses unchanged.
C7_RepeatRejected ==
    [][ /\ ( /\ resp'.op = "enrollInCourse"
             /\ Authenticated(resp') /\ resp'.id \in DOMAIN courses
             /\ InSeq(resp'.tok.id, courses[resp'.id].enrolledStudents) )
           => (resp'.status = BadRequest /\ courses' = courses /\ users' = users)
        /\ ( /\ resp'.op = "unenrollFromCourse"
             /\ Authenticated(resp') /\ resp'.id \in DOMAIN courses
             /\ ~InSeq(resp'.tok.id, courses[resp'.id].enrolledStudents) )
           => (resp'.status = BadRequest /\ courses' = courses /\ users' = users)
      ]_vars
\* A second enroll by an enrolled account has been answered 400.
C7_Witness ==
    /\ resp.op = "enrollInCourse" /\ resp.status = BadRequest
    /\ resp.id \in DOMAIN courses
    /\ InSeq(resp.tok.id, courses[resp.id].enrolledStudents)

\* C8: an updateCourse or deleteCourse request on an existing course by an
\* authenticated principal who is neither its instructor nor an admin is
\* answered 403 and leaves the course, every Category.courses and every
\* Account.enrolledCourses unchanged.
C8_ForeignCourseForbidden ==
    [][ ( /\ resp'.op \in {"updateCourse", "deleteCourse"}
          /\ Authenticated(resp') /\ resp'.id \in DOMAIN courses
          /\ courses[resp'.id].instructor # resp'.tok.id
          /\ users[resp'.tok.id].role # "admin" )
        => (resp'.status = Forbidden /\ courses' = courses
            /\ categories' = categories /\ users' = users)
      ]_vars
\* The other instructor has been refused the update of a course.
C8_Witness ==
    /\ resp.op = "updateCourse" /\ resp.status = Forbidden
    /\ Authenticated(resp) /\ users[resp.tok.id].role = "instructor"
    /\ resp.id \in DOMAIN courses /\ courses[resp.id].instructor # resp.tok.id


\* The routes behind protect.
ProtectedOps ==
    {"getMe", "logout", "getAllUsers", "getUserById", "updateUser", "deleteUser",
     "getAllProfiles", "getProfile", "updateProfile",
     "createCourse", "updateCourse", "deleteCourse", "enrollInCourse", "unenrollFromCourse",
     "createReview", "updateReview", "deleteReview", "getReviewsByUser",
     "createCategory", "updateCategory", "deleteCategory"}

\* C9: a request to a protected endpoint with a correctly signed, unexpired
\* token whose account has been deleted is answered 401 (the handler behind
\* protect never runs without a principal) and changes nothing.
C9_DeletedAccountIs401 ==
    [][ ( /\ resp'.op \in ProtectedOps
          /\ resp'.tok.kind = "valid" /\ resp'.tok.id \notin DOMAIN users )
        => (resp'.status = Unauthorized /\ store' = store)
      ]_vars

\* The roles a route requires, and the owner of the document it addresses
\* (Null when the route has no owner or the document does not exist).
RequiredRoles(op) ==
    IF op \in {"getAllUsers", "deleteUser", "getAllProfiles",
               "createCategory", "updateCategory", "deleteCategory"} THEN {"admin"}
    ELSE IF op \in {"createCourse", "updateCourse", "deleteCourse"} THEN {"instructor", "admin"}
    ELSE Roles
OwnerOf(r) ==
    IF r.op \in {"updateCourse", "deleteCourse"} /\ r.id \in DOMAIN courses
    THEN courses[r.id].instructor
    ELSE IF r.op = "updateUser" /\ r.id \in DOMAIN users THEN r.id
    ELSE IF r.op = "updateProfile" /\ ProfileByUser(r.id) # {} THEN r.id
    ELSE IF r.op \in {"updateReview", "deleteReview"} /\ r.id \in DOMAIN reviews
    THEN reviews[r.id].user
    ELSE Null
LacksPrivilege(r) ==
    /\ Authenticated(r)
    /\ \/ users[r.tok.id].role \notin RequiredRoles(r.op)
       \/ (OwnerOf(r) # Null /\ OwnerOf(r) # r.tok.id /\ users[r.tok.id].role # "admin")

\* C10: on every protected endpoint a request without a valid principal
\* (missing, malformed, expired or wrongly signed token) is answered 401, a
\* request of a valid principal lacking the required role or ownership is
\* answered 403, and neither changes the store.
C10_Deny401Or403 ==
    [][ /\ (resp'.op \in ProtectedOps /\ resp'.tok.kind # "valid")
           => (resp'.status = Unauthorized /\ store' = store)
        /\ (resp'.op \in ProtectedOps /\ LacksPrivilege(resp'))
           => (resp'.status = Forbidden /\ store' = store)
      ]_vars
\* An instructor has been refused the deletion of the student's review.
C10_Witness ==
    /\ resp.op = "deleteReview" /\ resp.status = Forbidden
    /\ Authenticated(resp) /\ resp.id \in DOMAIN reviews
    /\ reviews[resp.id].user # resp.tok.id

\* A request in flight whose next step writes the email e to the users
\* collection (a registration's insert, an email change's save).
WritesEmail(r) ==
    \/ r.pc = "rgCreate"
    \/ (r.pc = "uuSave" /\ Truthy(r.body, "email") /\ r.id \in DOMAIN users)
HeldByAnother(r) ==
    \E u \in DOMAIN users :
        /\ users[u].email = Lower(r.body.email)
        /\ (r.op = "updateUser" => u # r.id)

C12_FailedLoginAlike ==
    (resp.op = "login" /\ resp.status # Ok) =>
        /\ resp.status = Unauthorized
        /\ \A u \in UserByEmail(Lower(resp.body.email)) :
              /\ LoginResponse(Remove(users, u), resp.body).status = resp.status
              /\ LoginResponse(Remove(users, u), resp.body).message
                    = LoginResponse(users, resp.body).message

\* C13: after a successful updateCourse carrying a categories list N of
\* existing category ids (N possibly empty), Course.categories equals N and,
\* for every category K, the course id is in K.courses if and only if K is
\* in N.
C13_UpdateSetsCategories ==
    [][ ( /\ resp'.op = "updateCourse" /\ resp'.status = Ok
          /\ Has(resp'.body, "categories")
          /\ resp'.body.categories \subseteq DOMAIN categories )
        => /\ courses'[resp'.id].categories = resp'.body.categories
           /\ \A k \in DOMAIN categories' :
                 resp'.id \in categories'[k].courses <=> k \in resp'.body.categories
      ]_vars
\* The course moved from the first category to the second.
C13_Witness ==
    /\ resp.op = "updateCourse" /\ resp.status = Ok
    /\ Has(resp.body, "categories") /\ resp.body.categories = {2}
    /\ resp.id \in DOMAIN courses /\ courses[resp.id].categories = {2}
    /\ resp.id \notin categories[1].courses /\ resp.id \in categories[2].courses

\* C14: after a deleteCourse request completes successfully the course no
\* longer exists and its id appears in no Category.courses list and in no
\* Account.enrolledCourses list.
C14_DeleteCleansUp ==
    [][ (resp'.op = "deleteCourse" /\ resp'.status = Ok)
        => /\ resp'.id \notin DOMAIN courses'
           /\ \A k \in DOMAIN categories' : resp'.id \notin categories'[k].courses
           /\ \A u \in DOMAIN users' : resp'.id \notin users'[u].enrolledCourses
      ]_vars
\* The seed's course, which had a category and an enrolled student, is gone.
C14_Witness ==
    /\ resp.op = "deleteCourse" /\ resp.status = Ok /\ resp.id = 1
    /\ 1 \notin DOMAIN courses
    /\ users[StudentId].enrolledCourses = {}
    /\ \A k \in DOMAIN categories : 1 \notin categories[k].courses

\* C15: each course's instructor is the principal of the createCourse
\* request that created it: an instructor value in the body is ignored at
\* creation, and no later request (updateCourse included) changes the field.
C15_InstructorIsCreator ==
    [][ /\ (resp'.op = "createCourse" /\ resp'.status = Created)
           => (resp'.id \in DOMAIN courses' \ DOMAIN courses
               /\ courses'[resp'.id].instructor = resp'.tok.id)
        /\ \A c \in DOMAIN courses' \ DOMAIN courses :
              resp'.op = "createCourse" /\ resp'.id = c
        /\ \A c \in DOMAIN courses \cap DOMAIN courses' :
              courses'[c].instructor = courses[c].instructor
      ]_vars
\* A course created with another account named in the body belongs to its
\* creator, and an update naming another instructor has left it so.
C15_Witness ==
    /\ resp.op = "updateCourse" /\ resp.status = Ok
    /\ Has(resp.body, "instructor") /\ resp.id = 2
    /\ resp.id \in DOMAIN courses
    /\ courses[resp.id].instructor \notin {StudentId, resp.body.instructor}

PublicReads == {"getAllCourses", "getCourseById", "getCoursesByInstructor"}

\* C16: no public read endpoint (listing, detail by id, courses by
\* instructor) returns a course whose isPublished flag is false to an
\* anonymous caller or to a principal other than its instructor.
C16_DraftsHidden ==
    (resp.op \in PublicReads) =>
        \A c \in DOMAIN resp.data :
            \/ resp.data[c].isPublished
            \/ (Authenticated(resp) /\ resp.data[c].instructor = resp.tok.id)

\* The mean sum / n rounded half-up to one decimal, in tenths.
HalfUpTenths(sum, n) == (20 * sum + n) \div (2 * n)

\* C17: for every course the public listing returns, averageRating equals
\* the arithmetic mean of the ratings of all reviews referencing the course,
\* rounded half-up to one decimal (5, 4, 5 give 4.7), and 0 when the course
\* has no review.
C17_AverageHalfUp ==
    (resp.op = "getAllCourses") =>
        \A c \in DOMAIN resp.data :
            LET mine == {r \in DOMAIN reviews : reviews[r].course = c}
            IN resp.data[c].averageRating.tenths =
                  IF mine = {} THEN 0
                  ELSE HalfUpTenths(SumRatings(reviews, mine), Cardinality(mine))

\* C18: a review's rating or comment is changed, or the review deleted, only
\* by a request whose principal is the review's author or has role admin;
\* any other authenticated principal is answered 403 and the review is
\* unchanged; and a review's author is the principal that created it.
C18_ReviewOwnerOrAdmin ==
    [][ /\ \A r \in DOMAIN reviews :
              (r \notin DOMAIN reviews' \/ reviews'[r] # reviews[r])
              => /\ resp'.op \in {"updateReview", "deleteReview"} /\ resp'.id = r
                 /\ Authenticated(resp')
                 /\ (reviews[r].user = resp'.tok.id \/ users[resp'.tok.id].role = "admin")
        /\ ( /\ resp'.op \in {"updateReview", "deleteReview"}
             /\ Authenticated(resp') /\ resp'.id \in DOMAIN reviews
             /\ reviews[resp'.id].user # resp'.tok.id
             /\ users[resp'.tok.id].role # "admin" )
           => (resp'.status = Forbidden /\ reviews' = reviews)
        /\ \A r \in DOMAIN reviews' :
              IF r \in DOMAIN reviews THEN reviews'[r].user = reviews[r].user
              ELSE resp'.op = "createReview" /\ reviews'[r].user = resp'.tok.id
      ]_vars
\* The instructor has been refused the change of the student's rating, and
\* a review created with another author named in the body is its creator's.
C18_Witness ==
    /\ resp.op = "updateReview" /\ resp.status = Forbidden
    /\ resp.id \in DOMAIN reviews /\ Has(resp.body, "rating")
    /\ reviews[resp.id].user # resp.tok.id
    /\ reviews[resp.id].rating # resp.body.rating
    /\ \E r \in DOMAIN reviews : reviews[r].user = Instructor2Id /\ reviews[r].rating = 3

CategoryWrites == {"createCategory", "updateCategory", "deleteCategory"}
AdminRequest(r) == Authenticated(r) /\ users[r.tok.id].role = "admin"

\* C19: the set of categories and each category's name and description
\* change only through requests whose principal has role admin at the time
\* of the request; create, update and delete category requests of any other
\* caller leave all categories unchanged.
C19_CategoriesAdminOnly ==
    [][ /\ ( \/ DOMAIN categories' # DOMAIN categories
             \/ \E k \in DOMAIN categories \cap DOMAIN categories' :
                   \/ categories'[k].name # categories[k].name
                   \/ categories'[k].description # categories[k].description )
           => (resp'.op \in CategoryWrites /\ AdminRequest(resp'))
        /\ (resp'.op \in CategoryWrites /\ ~AdminRequest(resp'))
           => categories' = categories
      ]_vars
\* The seed's admin, since demoted, has been refused the deletion of a
\* category that an instructor's course is attached to.
C19_Witness ==
    /\ resp.op = "deleteCategory" /\ resp.status = Forbidden
    /\ resp.tok = GenerateToken(AdminId) /\ resp.id \in DOMAIN categories
    /\ 2 \in DOMAIN courses /\ 2 \in categories[2].courses

\* C20: an account is deleted only by a request of an admin principal, and
\* its email is changed only by a request of that account or of an admin; a
\* PUT /users/:id of any other authenticated principal and a
\* DELETE /users/:id of a non-admin are answered 403, the account unchanged.
C20_AccountsSelfOrAdmin ==
    [][ /\ \A u \in DOMAIN users \ DOMAIN users' :
              resp'.op = "deleteUser" /\ resp'.id = u /\ AdminRequest(resp')
        /\ \A u \in DOMAIN users \cap DOMAIN users' :
              users'[u].email # users[u].email
              => /\ resp'.op = "updateUser" /\ resp'.id = u /\ Authenticated(resp')
                 /\ (resp'.tok.id = u \/ users[resp'.tok.id].role = "admin")
        /\ ( /\ resp'.op = "updateUser" /\ Authenticated(resp')
             /\ resp'.id \in DOMAIN users /\ resp'.tok.id # resp'.id
             /\ users[resp'.tok.id].role # "admin" )
           => (resp'.status = Forbidden /\ users' = users)
        /\ ( /\ resp'.op = "deleteUser" /\ Authenticated(resp')
             /\ users[resp'.tok.id].role # "admin" )
           => (resp'.status = Forbidden /\ users' = users)
      ]_vars
\* The student's email has been changed and the second instructor made
\* admin; the student has then been refused the change of that
\* instructor's email.
C20_Witness ==
    /\ resp.op = "updateUser" /\ resp.status = Forbidden
    /\ resp.tok = GenerateToken(StudentId) /\ resp.id = Instructor2Id
    /\ Has(resp.body, "email")
    /\ users[StudentId].email = "new@x.com"
    /\ users[Instructor2Id].role = "admin"


\* C21: an authenticated principal whose id equals a course's instructor
\* field is always allowed to update and to delete that course (the request
\* is not answered 403), whatever the principal's current role, in
\* particular after an admin has changed it from instructor to student.
C21_OwnerAlwaysAllowed ==
    [][ ( /\ resp'.op \in {"updateCourse", "deleteCourse"}
          /\ Authenticated(resp') /\ resp'.id \in DOMAIN courses
          /\ courses[resp'.id].instructor = resp'.tok.id )
        => resp'.status # Forbidden
      ]_vars


\* The password an account was registered with: the student's by the seed,
\* the one of the registration body for the account registered afterwards.
OriginalPassword(u) == IF u = StudentId THEN "student123" ELSE "secret1"

C23_NoCategoriesNoChange ==
    [][ (resp'.op = "updateCourse" /\ ~Has(resp'.body, "categories"))
        => /\ DOMAIN courses' = DOMAIN courses
           /\ \A c \in DOMAIN courses : courses'[c].categories = courses[c].categories
           /\ DOMAIN categories' = DOMAIN categories
           /\ \A k \in DOMAIN categories : categories'[k].courses = categories[k].courses
      ]_vars
\* The price and the publication of a course in two categories have been
\* changed by a body without categories; the course is still in both.
C23_Witness ==
    /\ resp.op = "updateCourse" /\ resp.status = Ok /\ ~Has(resp.body, "categories")
    /\ Has(resp.body, "price") /\ resp.id = 2 /\ 2 \in DOMAIN courses
    /\ courses[2].price = resp.body.price
    /\ courses[2].categories = {1, 2}
    /\ 2 \in categories[1].courses /\ 2 \in categories[2].courses


\* The course the save of an updateCourse request validates: the stored one
\* with the title and the price of the body.
Submitted(r) ==
    [title |-> IF Truthy(r.body, "title") THEN r.body.title ELSE courses[r.id].title,
     price |-> IF Has(r.body, "price") THEN r.body.price ELSE courses[r.id].price]

\* C24: when an updateCourse request of the course's instructor or of an
\* admin carries a categories list and a field that fails validation, the
\* request is answered with the validation failure (400), every category's
\* courses list is as the request's pull and add left it (the course is in
\* exactly the categories of the list) and the course, its categories field
\* included, keeps its previous value: nothing is rolled back.
C24_NoRollback ==
    [][ ( /\ resp'.op = "updateCourse" /\ Authenticated(resp')
          /\ resp'.id \in DOMAIN courses /\ ~LacksPrivilege(resp')
          /\ Has(resp'.body, "categories") /\ ~CourseValid(Submitted(resp')) )
        => /\ resp'.status = BadRequest
           /\ courses' = courses
           /\ \A k \in DOMAIN categories' :
                 resp'.id \in categories'[k].courses <=> k \in resp'.body.categories
      ]_vars
\* An update moving the seed's course to the second category with a
\* negative price was answered 400: the second category lists the course,
\* the first no longer does, and the course still names the first.
C24_Witness ==
    /\ resp.op = "updateCourse" /\ resp.status = BadRequest /\ resp.id = 1
    /\ Has(resp.body, "categories") /\ resp.body.categories = {2}
    /\ courses[1].categories = {1} /\ courses[1].price = 50
    /\ 1 \notin categories[1].courses /\ 1 \in categories[2].courses


\* Some category lists course c while the course does not name it.
ListedNotNamed(c) ==
    \E k \in DOMAIN categories : c \in categories[k].courses /\ k \notin courses[c].categories

\* C25: two updateCourse requests on one course with different category
\* lists, interleaved at their store operations, can both complete in a
\* state where a category's courses list contains the course while
\* Course.categories does not contain the category (C25_Witness); this is
\* the work of the interleaving: a request during which no other was in
\* progress leaves, at its save, every category listing the course named by
\* the course.
C25_LostUpdateByInterleaving ==
    [][ \A s \in Slots :
          ( /\ inflight[s].pc = "ucSave" /\ inflight'[s].pc = "done"
            /\ inflight'[s].status = Ok /\ inflight[s].alone
            /\ Has(inflight[s].body, "categories") )
          => ~ListedNotNamed(inflight[s].id)'
      ]_vars
\* Both requests were answered 200, their lists differ, and a category
\* lists the course that the course does not name.
C25_Witness ==
    \E s \in Slots : \E w \in Slots :
        /\ s # w
        /\ inflight[s].pc = "done" /\ inflight[s].status = Ok /\ inflight[s].op = "updateCourse"
        /\ inflight[w].pc = "done" /\ inflight[w].status = Ok /\ inflight[w].op = "updateCourse"
        /\ Has(inflight[s].body, "categories") /\ Has(inflight[w].body, "categories")
        /\ inflight[s].body.categories # inflight[w].body.categories
        /\ inflight[s].id = inflight[w].id /\ ~inflight[s].alone /\ ~inflight[w].alone
        /\ ListedNotNamed(inflight[s].id)


\* The routes whose only 403 is the one of authorize.
RoleCheckedOps == {"getAllUsers", "getAllProfiles", "createCourse", "createCategory"}

\* A login answered 200 whose answer (token, role at that moment) is at hand.
Issued(r) == r.pc = "done" /\ r.op = "login" /\ r.status = Ok

\* C26: a token issued by a login still authenticates the same account
\* after an admin has changed the account's role (the request is not
\* answered 401 and its principal is that account), and the role check of
\* every later request with the token is decided by the role stored for the
\* account at the time of the request, not by the role at the time of issue.
C26_TokenOutlivesRole ==
    [][ \A s \in Slots :
          ( /\ Issued(inflight[s]) /\ inflight[s].id \in DOMAIN users
            /\ resp = Idle /\ resp' # Idle /\ resp'.op \in ProtectedOps
            /\ resp'.tok = inflight[s].tok )
          => /\ resp'.status # Unauthorized
             /\ resp'.user = inflight[s].id
             /\ resp'.op \in RoleCheckedOps =>
                   (resp'.status = Forbidden
                      <=> users[inflight[s].id].role \notin RequiredRoles(resp'.op))
      ]_vars
\* The student logged in as a student and was made admin afterwards: the
\* token of that login has been let through a route for admins only.
C26_Witness ==
    \E s \in Slots :
        /\ Issued(inflight[s]) /\ inflight[s].id = StudentId /\ inflight[s].role = "student"
        /\ resp.op = "getAllUsers" /\ resp.tok = inflight[s].tok /\ resp.status = Ok
        /\ users[StudentId].role = "admin"


\* C27: deleteCategory removes only the Category document: the categories
\* list of every course (and every other document) is left unchanged, so a
\* course that named the deleted category keeps its id, which no longer
\* refers to a document.
C27_DeleteCategoryLeavesCourses ==
    [][ (resp'.op = "deleteCategory")
        => /\ courses' = courses
           /\ <<users, profiles, reviews>>' = <<users, profiles, reviews>>
           /\ IF resp'.status = Ok
              THEN /\ resp'.id \in DOMAIN categories
                   /\ categories' = Remove(categories, resp'.id)
                   /\ \A c \in DOMAIN courses :
                         resp'.id \in courses[c].categories
                         => (resp'.id \in courses'[c].categories
                             /\ resp'.id \notin DOMAIN categories')
              ELSE categories' = categories
      ]_vars
\* The second category has been deleted and the course created in it
\* still names it.
C27_Witness ==
    /\ resp.op = "deleteCategory" /\ resp.status = Ok /\ resp.id = 2
    /\ 2 \notin DOMAIN categories
    /\ 2 \in DOMAIN courses /\ 2 \in courses[2].categories


\* C28: when an enroll request and a deleteCourse request for one course
\* interleave at their store operations, then once both have completed (no
\* request is in progress) no account's enrolledCourses contains the id of
\* a deleted course.
C28_NoEnrolmentInDeletedCourse ==
    (\A s \in Slots : ~InProgress(inflight[s]))
        => \A u \in DOMAIN users : users[u].enrolledCourses \subseteq DOMAIN courses

\* C29: in every reachable state Course.enrolledStudents contains each
\* account id at most once, also when two enroll requests of one account
\* for one course interleave between the membership test and the save.
C29_EnrolledAtMostOnce ==
    \A c \in DOMAIN courses :
        \A i \in 1..Len(courses[c].enrolledStudents) :
            \A j \in 1..Len(courses[c].enrolledStudents) :
                courses[c].enrolledStudents[i] = courses[c].enrolledStudents[j] => i = j

\* C30: when an enroll request of account A and an unenroll request of
\* another account B on one course interleave at their store operations,
\* then once both have completed successfully (200) A is in
\* Course.enrolledStudents and the course in A.enrolledCourses, while B is
\* in neither side.
C30_EnrolSurvivesUnenrol ==
    \A s \in Slots : \A w \in Slots :
        ( /\ inflight[s].pc = "done" /\ inflight[s].op = "enrollInCourse"
          /\ inflight[s].status = Ok
          /\ inflight[w].pc = "done" /\ inflight[w].op = "unenrollFromCourse"
          /\ inflight[w].status = Ok
          /\ inflight[s].id = inflight[w].id /\ inflight[s].user # inflight[w].user )
        => /\ InSeq(inflight[s].user, courses[inflight[s].id].enrolledStudents)
           /\ inflight[s].id \in users[inflight[s].user].enrolledCourses
           /\ ~InSeq(inflight[w].user, courses[inflight[w].id].enrolledStudents)
           /\ inflight[w].id \notin users[inflight[w].user].enrolledCourses
\* The two requests overlapped, both were answered 200, and the course
\* lists the second instructor alone.
C30_Witness ==
    \E s \in Slots : \E w \in Slots :
        /\ inflight[s].pc = "done" /\ inflight[s].op = "enrollInCourse"
        /\ inflight[s].status = Ok /\ inflight[s].user = Instructor2Id
        /\ inflight[w].pc = "done" /\ inflight[w].op = "unenrollFromCourse"
        /\ inflight[w].status = Ok /\ inflight[w].user = StudentId
        /\ ~inflight[s].alone /\ ~inflight[w].alone
        /\ courses[1].enrolledStudents = <<Instructor2Id>>
        /\ users[Instructor2Id].enrolledCourses = {1}
        /\ users[StudentId].enrolledCourses = {}

====
